---------------------------- MODULE Spec2Model ----------------------------
(***************************************************************************)
(* LiveMonitor (src/src/core/live-monitor.js): the baseline registry, the  *)
(* snapshot store on disk (baselines, history, diffs), the comparison      *)
(* pipeline runCheck, the cron schedule and the webhook fan-out.           *)
(*                                                                         *)
(* Strings that the code builds, sanitises or splits (urls, selectors,     *)
(* snapshot keys, file names) are sequences of one-character strings, so   *)
(* that _sanitizeFilename and _extractKeyParts are computed character by   *)
(* character, as the regular expressions of the source compute them.       *)
(***************************************************************************)
EXTENDS Integers, Sequences, FiniteSets, TLC

(***************************************************************************)
(* Bounds of the model.                                                    *)
(***************************************************************************)
\* The clock stops the model: no capture begins at or after MaxTime.
MaxTime == 3
\* runCheck invocations that may be in flight at once.
MaxInFlight == 2
\* config.storage.maxSnapshots as configured here (the default is 20).
maxSnapshots == 2
\* The clock's last instant in the specification of the history.
MaxHistoryTime == 5

\* the start() calls and left-over cron jobs that are followed
MaxStarts == 2

\* the snapshots stored in the histories of two targets
MaxStored == 3

(***************************************************************************)
(* State.                                                                  *)
(***************************************************************************)
VARIABLES
  now,                \* the clock new Date() reads
  isRunning,          \* this.isRunning
  cronJob,            \* this.cronJob: "null", "scheduled" or "stopped"
  baselineSnapshots,  \* this.baselineSnapshots: key -> baseline
  baselineFiles,      \* <baseDir>/baselines: file name -> image
  historyFiles,       \* <baseDir>/history: directory -> its files
  diffFiles,          \* <baseDir>/diffs: the diff images written
  historyLog,         \* per history directory, every snapshot ever stored in
                      \* it, in the order of the writes (an observer: the
                      \* program keeps no such record)
  checks,             \* the runCheck invocations, one per slot
  lastCall,           \* the call of the public interface that the last step
                      \* made, whether the monitor was running when it was
                      \* made, whether it threw and the events it emitted
                      \* (an observer)
  derived,            \* two targets, the keys and paths derived for them,
                      \* and the history stored for them
  env,                \* what the surroundings of the monitor may do
  starting,           \* the start() calls past the guard of line 46 that
                      \* still await their loading and creation (lines 51-59)
  orphans,            \* the armed cron jobs that this.cronJob no longer
                      \* refers to
  browsers            \* the browsers launched, or being launched, by a
                      \* capture batch and not closed

vars == <<now, isRunning, cronJob, baselineSnapshots, baselineFiles,
          historyFiles, historyLog, diffFiles, checks, lastCall, derived, env,
                 starting, orphans, browsers>>

\* everything but the observer of the calls
monitor == <<now, isRunning, cronJob, baselineSnapshots, baselineFiles,
             historyFiles, historyLog, diffFiles, checks, derived, env,
                 starting, orphans, browsers>>

(***************************************************************************)
(* Characters.                                                             *)
(***************************************************************************)
Letters ==
  {"a","b","c","d","e","f","g","h","i","j","k","l","m",
   "n","o","p","q","r","s","t","u","v","w","x","y","z"}
Digits == {"0","1","2","3","4","5","6","7","8","9"}
\* \w of a JavaScript regular expression (the model uses lower case only).
WordChars == Letters \cup Digits \cup {"_"}
\* \s of a JavaScript regular expression, as far as the model's strings go.
SpaceChars == {" "}

StartsWith(s, p) ==
  /\ Len(s) >= Len(p)
  /\ SubSeq(s, 1, Len(p)) = p

Drop(s, n) == SubSeq(s, n + 1, Len(s))

Undefined == <<"<undefined>">>

(***************************************************************************)
(* _sanitizeFilename, one replace() at a time.                             *)
(***************************************************************************)
HttpsScheme == <<"h","t","t","p","s",":","/","/">>
HttpScheme == <<"h","t","t","p",":","/","/">>

\* .replace(/https?:\/\//g, '')
RECURSIVE StripScheme(_)
StripScheme(s) ==
  IF s = <<>> THEN <<>>
  ELSE IF StartsWith(s, HttpsScheme) THEN StripScheme(Drop(s, Len(HttpsScheme)))
  ELSE IF StartsWith(s, HttpScheme) THEN StripScheme(Drop(s, Len(HttpScheme)))
  ELSE <<Head(s)>> \o StripScheme(Tail(s))

\* .replace(/[\/\?=&]/g, '_')
RECURSIVE ReplaceSeparators(_)
ReplaceSeparators(s) ==
  IF s = <<>> THEN <<>>
  ELSE <<IF Head(s) \in {"/", "?", "=", "&"} THEN "_" ELSE Head(s)>>
         \o ReplaceSeparators(Tail(s))

\* .replace(/\s+/g, '-'): a run of white space becomes one dash
RECURSIVE ReplaceSpaces(_)
ReplaceSpaces(s) ==
  IF s = <<>> THEN <<>>
  ELSE IF Head(s) \in SpaceChars
       THEN IF Len(s) > 1 /\ s[2] \in SpaceChars
            THEN ReplaceSpaces(Tail(s))
            ELSE <<"-">> \o ReplaceSpaces(Tail(s))
       ELSE <<Head(s)>> \o ReplaceSpaces(Tail(s))

\* .replace(/[^\w\-\.]/g, '')
RECURSIVE StripUnsafe(_)
StripUnsafe(s) ==
  IF s = <<>> THEN <<>>
  ELSE (IF Head(s) \in WordChars \cup {"-", "."} THEN <<Head(s)>> ELSE <<>>)
       \o StripUnsafe(Tail(s))

_sanitizeFilename(input) ==
  StripUnsafe(ReplaceSpaces(ReplaceSeparators(StripScheme(input))))

(***************************************************************************)
(* _getSnapshotKey and _extractKeyParts.                                   *)
(***************************************************************************)
KeySeparator == <<"_", "_">>

_getSnapshotKey(url, viewportName, selector) ==
  url \o KeySeparator \o viewportName \o KeySeparator \o selector

\* String.prototype.split(sep): the pieces between the occurrences of sep,
\* found left to right without overlap.
RECURSIVE SplitFrom(_, _, _)
SplitFrom(s, sep, piece) ==
  IF s = <<>> THEN <<piece>>
  ELSE IF StartsWith(s, sep)
       THEN <<piece>> \o SplitFrom(Drop(s, Len(sep)), sep, <<>>)
       ELSE SplitFrom(Tail(s), sep, Append(piece, Head(s)))

Split(s, sep) == SplitFrom(s, sep, <<>>)

\* parts[i] of a JavaScript array (0-based): undefined beyond its end
PartAt(parts, i) == IF i + 1 <= Len(parts) THEN parts[i + 1] ELSE Undefined

_extractKeyParts(key) ==
  LET parts == Split(key, KeySeparator)
  IN  <<PartAt(parts, 0), PartAt(parts, 1), PartAt(parts, 2)>>

\* String.prototype.replace(pattern, '') with a string pattern: the first
\* occurrence only
RECURSIVE RemoveFirst(_, _)
RemoveFirst(s, pattern) ==
  IF s = <<>> THEN <<>>
  ELSE IF StartsWith(s, pattern) THEN Drop(s, Len(pattern))
  ELSE <<Head(s)>> \o RemoveFirst(Tail(s), pattern)

PngSuffix == <<".", "p", "n", "g">>

EndsWith(s, p) ==
  /\ Len(s) >= Len(p)
  /\ SubSeq(s, Len(s) - Len(p) + 1, Len(s)) = p

(***************************************************************************)
(* Configuration (constructor, lines 13-35) of the monitored instance.     *)
(***************************************************************************)
UrlA == HttpsScheme \o <<"a", ".", "i", "o">>
UrlB == HttpsScheme \o <<"a", ".", "i", "o", "/", "p">>
Desktop == <<"d","e","s","k","t","o","p">>
Body == <<"b","o","d","y">>

urls == <<UrlA, UrlB>>
viewports == <<[name |-> Desktop, width |-> 1920, height |-> 1080]>>
selectors == <<Body>>
webhooks == <<[type |-> "slack"], [type |-> "generic"]>>

\* thresholds.pixelDifference = 0.03, as the fraction 3/100
pixelDifferenceNum == 3
pixelDifferenceDen == 100

(***************************************************************************)
(* Images.  A screenshot is a width x height grid of pixels; the renderings*)
(* of the model are the reference page with its first `changed` pixels     *)
(* painted differently.                                                    *)
(***************************************************************************)
Image(w, h, c) == [width |-> w, height |-> h, changed |-> c]

\* The renderings: the reference, 3% and 4% of its pixels changed, and an
\* element that has shrunk.
Reference == Image(10, 10, 0)
Changed3 == Image(10, 10, 3)
Changed4 == Image(10, 10, 4)
Shrunk == Image(10, 5, 0)

\* PNG.sync.read(buffer).data, one entry per pixel
PixelData(img) ==
  [i \in 1..(img.width * img.height) |-> IF i <= img.changed THEN 1 ELSE 0]

\* pixelmatch throws 'Image sizes do not match' when the two data arrays
\* differ in length
SizesMatch(baselineImg, currentImg) ==
  Len(PixelData(baselineImg)) = Len(PixelData(currentImg))

\* A pixel comparison that counts the pixels that are equal.
pixelmatchCountingEqual(img1, img2, width, height) ==
  Cardinality({i \in 1..(width * height) : img1[i] = img2[i]})

\* pixelmatch(img1, img2, output, width, height): the number of pixels
\* that differ
pixelmatch(img1, img2, width, height) ==
  Cardinality({i \in 1..(width * height) : img1[i] # img2[i]})

\* A threshold test that a ratio equal to the threshold passes too.
ReachesThreshold(diffPixelCount, totalPixels) ==
  diffPixelCount * pixelDifferenceDen >= pixelDifferenceNum * totalPixels

(***************************************************************************)
(* _compareSnapshots, lines 402-407: the ratio is kept as a fraction       *)
(* diffPixelCount / totalPixels, compared with 3/100 by cross              *)
(* multiplication (exact: for the image sizes a browser produces the       *)
(* double division rounds no two distinct fractions onto 0.03).            *)
(***************************************************************************)
ExceedsThreshold(diffPixelCount, totalPixels) ==
  diffPixelCount * pixelDifferenceDen > pixelDifferenceNum * totalPixels

\* lines 380-430, without the write of the diff image
Comparison(baselineImg, currentImg) ==
  LET width == baselineImg.width
      height == baselineImg.height
      diffPixelCount == pixelmatch(PixelData(baselineImg), PixelData(currentImg),
                                   width, height)
      totalPixels == width * height
  IN  [diffPixelCount |-> diffPixelCount,
       totalPixels |-> totalPixels,
       exceedsThreshold |-> ExceedsThreshold(diffPixelCount, totalPixels)]

\* Comparison and SizesMatch are functions of the two images alone: they
\* are computed once for the renderings of the model.
Images == {Reference, Changed3, Changed4, Shrunk}

ComparisonOfImages ==
  [pair \in {p \in Images \X Images : SizesMatch(p[1], p[2])} |->
     Comparison(pair[1], pair[2])]

SizesMatchOfImages == [pair \in Images \X Images |-> SizesMatch(pair[1], pair[2])]

\* A comparison that writes its diff image whatever the ratio.
WritesDiffImageAlways(comparison) == TRUE

\* line 411: the diff image is written when the threshold is exceeded
WritesDiffImage(comparison) == comparison.exceedsThreshold

(***************************************************************************)
(* _captureSnapshots, lines 274-332.                                       *)
(***************************************************************************)
\* page.$(selector) found no element: there is no screenshot
NoElement == Image(0, 0, 0)

\* the loops of lines 283-295, in their order
Targets(us, vs, ss) ==
  [i \in 1..(Len(us) * Len(vs) * Len(ss)) |->
     [url |-> us[((i - 1) \div (Len(vs) * Len(ss))) + 1],
      viewport |-> vs[(((i - 1) \div Len(ss)) % Len(vs)) + 1],
      selector |-> ss[((i - 1) % Len(ss)) + 1]]]

RECURSIVE Captured(_, _, _, _)
Captured(ts, shot, i, at) ==
  IF i > Len(ts) THEN <<>>
  ELSE (IF shot[i] = NoElement THEN <<>>
        ELSE <<[url |-> ts[i].url, viewport |-> ts[i].viewport,
                selector |-> ts[i].selector, buffer |-> shot[i],
                timestamp |-> at]>>)
       \o Captured(ts, shot, i + 1, at)

\* undefined where a viewport object is expected
UndefinedViewport == [name |-> Undefined, width |-> 0, height |-> 0]

\* An argument the caller left out, or a viewport name that find() did not
\* find, reaches goto() or viewport.width as undefined and throws.
Capturable(us, vs, ss) ==
  /\ \A i \in 1..Len(us) : us[i] # Undefined
  /\ \A i \in 1..Len(vs) : vs[i] # UndefinedViewport

\* Every way a capture batch can end at time `at`: it throws (the browser
\* does not launch, line 279, or the navigation to one page times out: the
\* goto of line 290 is outside the try of line 296), or it returns the
\* snapshots of the elements that were found and photographed.  `failed` are
\* the targets whose own capture failed: those of the page that timed out,
\* or those whose element was not found (lines 299-302).
\* env.renders[url] are the screenshots the page at url may give.
Shots(ts) ==
  {shot \in [1..Len(ts) -> UNION {env.renders[u] : u \in DOMAIN env.renders}
                                \cup {NoElement}] :
     \A i \in 1..Len(ts) :
       \/ shot[i] \in env.renders[ts[i].url]
       \/ shot[i] = NoElement /\ ts[i].url \in env.elementMissing}

CaptureOutcomes(us, vs, ss, at) ==
  LET ts == Targets(us, vs, ss)
      OnPage(u, v) == {ts[i] : i \in {j \in 1..Len(ts) :
                                        ts[j].url = u /\ ts[j].viewport = v}}
  IN  (IF ~Capturable(us, vs, ss)
       THEN {[threw |-> TRUE, error |-> "navigation", snapshots |-> <<>>,
              failed |-> OnPage(us[1], vs[1])]}
       ELSE {})
      \cup
      (IF Capturable(us, vs, ss) /\ env.captureThrows
       THEN {[threw |-> TRUE, error |-> "launch", snapshots |-> <<>>,
              failed |-> {}]}
            \cup {[threw |-> TRUE, error |-> "navigation", snapshots |-> <<>>,
                    failed |-> OnPage(us[i], vs[j])] :
                     i \in 1..Len(us), j \in 1..Len(vs)}
       ELSE {})
      \cup
      (IF Capturable(us, vs, ss)
       THEN {[threw |-> FALSE, error |-> "none",
              snapshots |-> Captured(ts, shot, 1, at),
              failed |-> {ts[i] : i \in {j \in 1..Len(ts) : shot[j] = NoElement}}] :
               shot \in Shots(ts)}
       ELSE {})

\* the writes of a save loop that may fail: none (0) or the i-th
FailingWrites(snapshots) == IF env.writeFails THEN 0..Len(snapshots) ELSE {0}

\* the files of a directory that readFile can read
ReadableFiles(files) == IF env.readFails THEN SUBSET DOMAIN files ELSE {DOMAIN files}

\* line 279: the batch has a browser unless chromium.launch itself rejected
Launched(capture) == capture.error # "launch"

\* A batch that closes its browser on the way to its return only.
ClosesBrowserOnReturn(capture) == ~capture.threw

\* lines 326-329: the finally closes the browser however the batch ends
ClosesBrowser(capture) == TRUE

\* the browsers the batch leaves open when it ends: 1 or 0
LeftOpen(capture) ==
  IF Launched(capture) /\ ~ClosesBrowser(capture) THEN 1 ELSE 0

(***************************************************************************)
(* The baseline registry and the baselines directory.                      *)
(***************************************************************************)
KeyOf(snapshot) ==
  _getSnapshotKey(snapshot.url, snapshot.viewport.name, snapshot.selector)

\* _sanitizeFilename of the keys of the configured targets, computed once
ConfiguredKeys ==
  {_getSnapshotKey(t.url, t.viewport.name, t.selector) :
     t \in {Targets(urls, viewports, selectors)[i] :
              i \in 1..(Len(urls) * Len(viewports) * Len(selectors))}}

SanitizedKeys == [key \in ConfiguredKeys |-> _sanitizeFilename(key)]

Sanitized(key) ==
  IF key \in ConfiguredKeys THEN SanitizedKeys[key] ELSE _sanitizeFilename(key)

BaselineFile(key) == Sanitized(key) \o PngSuffix

\* Map.prototype.set / fs.writeFile
Put(f, k, v) == [x \in DOMAIN f \cup {k} |-> IF x = k THEN v ELSE f[x]]

\* the snapshot as the registry holds it
Entry(snapshot) ==
  [url |-> snapshot.url, viewport |-> snapshot.viewport,
   selector |-> snapshot.selector, buffer |-> snapshot.buffer]

\* A save loop that catches the failure of a write and goes on.
RECURSIVE SaveBaselinesSwallowing(_, _, _, _, _)
SaveBaselinesSwallowing(registry, files, snapshots, i, failAt) ==
  IF i > Len(snapshots) THEN [registry |-> registry, files |-> files, threw |-> FALSE]
  ELSE LET key == KeyOf(snapshots[i])
           set == Put(registry, key, Entry(snapshots[i]))
       IN  SaveBaselinesSwallowing(
             set,
             IF i = failAt THEN files
             ELSE Put(files, BaselineFile(key), snapshots[i].buffer),
             snapshots, i + 1, failAt)

\* A save loop that writes to the file what the registry held before, when
\* it held something.
RECURSIVE SaveBaselinesStale(_, _, _, _, _)
SaveBaselinesStale(registry, files, snapshots, i, failAt) ==
  IF i > Len(snapshots) THEN [registry |-> registry, files |-> files, threw |-> FALSE]
  ELSE LET key == KeyOf(snapshots[i])
           set == Put(registry, key, Entry(snapshots[i]))
           written == IF key \in DOMAIN registry THEN registry[key].buffer
                      ELSE snapshots[i].buffer
       IN  IF i = failAt
           THEN [registry |-> set, files |-> files, threw |-> TRUE]
           ELSE SaveBaselinesStale(set, Put(files, BaselineFile(key), written),
                                   snapshots, i + 1, failAt)

\* The loop of lines 111-124 (and 240-253): set in memory, then write; the
\* write of snapshot number failAt fails and ends the loop (0: none fails).
RECURSIVE SaveBaselines(_, _, _, _, _)
SaveBaselines(registry, files, snapshots, i, failAt) ==
  IF i > Len(snapshots) THEN [registry |-> registry, files |-> files, threw |-> FALSE]
  ELSE LET key == KeyOf(snapshots[i])
           set == Put(registry, key, Entry(snapshots[i]))
       IN  IF i = failAt
           THEN [registry |-> set, files |-> files, threw |-> TRUE]
           ELSE SaveBaselines(set, Put(files, BaselineFile(key), snapshots[i].buffer),
                              snapshots, i + 1, failAt)

\* line 357: the configured viewport of that name, or the fallback
ViewportNamed(name) ==
  IF \E i \in 1..Len(viewports) : viewports[i].name = name
  THEN viewports[CHOOSE i \in 1..Len(viewports) :
                   /\ viewports[i].name = name
                   /\ \A j \in 1..(i - 1) : viewports[j].name # name]
  ELSE [name |-> name, width |-> 1920, height |-> 1080]

\* lines 348-365, for one file of the baselines directory
LoadedKey(file) == RemoveFirst(file, PngSuffix)

LoadedParts(file) == _extractKeyParts(LoadedKey(file))

\* both, computed once for the baseline files of the configured targets
ConfiguredFiles == {BaselineFile(key) : key \in ConfiguredKeys}

LoadedOfFiles ==
  [file \in ConfiguredFiles |->
     [key |-> LoadedKey(file), parts |-> LoadedParts(file),
      png |-> EndsWith(file, PngSuffix)]]

Loaded(file) ==
  IF file \in ConfiguredFiles THEN LoadedOfFiles[file]
  ELSE [key |-> LoadedKey(file), parts |-> LoadedParts(file),
        png |-> EndsWith(file, PngSuffix)]

LoadedEntry(file, buffer) ==
  LET parts == Loaded(file).parts
  IN  [url |-> parts[1], viewport |-> ViewportNamed(parts[2]),
       selector |-> parts[3], buffer |-> buffer]

\* A load that skips the files whose viewport name is not configured.
RECURSIVE LoadBaselinesConfigured(_, _, _)
LoadBaselinesConfigured(registry, files, readable) ==
  IF readable = {} THEN registry
  ELSE LET file == CHOOSE f \in readable : TRUE
           rest == readable \ {file}
           name == Loaded(file).parts[2]
       IN  IF /\ Loaded(file).png
              /\ \E i \in 1..Len(viewports) : viewports[i].name = name
           THEN LoadBaselinesConfigured(Put(registry, Loaded(file).key,
                                            LoadedEntry(file, files[file])), files, rest)
           ELSE LoadBaselinesConfigured(registry, files, rest)

\* A load that gives up altogether when a file of the directory cannot be
\* read.
RECURSIVE LoadBaselinesOrNone(_, _, _)
LoadBaselinesOrNone(registry, files, readable) ==
  IF readable = {} \/ \E f \in DOMAIN files : f \notin readable THEN registry
  ELSE LET file == CHOOSE f \in readable : TRUE
           rest == readable \ {file}
           rested == [f \in DOMAIN files \ {file} |-> files[f]]
       IN  IF Loaded(file).png
           THEN LoadBaselinesOrNone(Put(registry, Loaded(file).key,
                                        LoadedEntry(file, files[file])), rested, rest)
           ELSE LoadBaselinesOrNone(registry, rested, rest)

\* _loadBaselines, lines 337-375: every readable .png of the directory
RECURSIVE LoadBaselines(_, _, _)
LoadBaselines(registry, files, readable) ==
  IF readable = {} THEN registry
  ELSE LET file == CHOOSE f \in readable : TRUE
           rest == readable \ {file}
       IN  IF Loaded(file).png
           THEN LoadBaselines(Put(registry, Loaded(file).key,
                                  LoadedEntry(file, files[file])), files, rest)
           ELSE LoadBaselines(registry, files, rest)

(***************************************************************************)
(* _storeSnapshotHistory, lines 435-485.  A history file snapshot-<t>.png  *)
(* is modelled by its time stamp t; the ISO time stamps of the file names  *)
(* have a fixed width, so sort() orders them as the numbers are ordered.   *)
(***************************************************************************)
RECURSIVE SortedFiles(_)
SortedFiles(S) ==
  IF S = {} THEN <<>>
  ELSE LET least == CHOOSE x \in S : \A y \in S : x <= y
       IN  <<least>> \o SortedFiles(S \ {least})

\* A clean-up that slices the sorted listing from the wrong end.
FilesToDeleteNewest(snapshotFiles) ==
  IF Len(snapshotFiles) > maxSnapshots
  THEN SubSeq(snapshotFiles, maxSnapshots + 1, Len(snapshotFiles))
  ELSE <<>>

\* lines 472-473
FilesToDelete(snapshotFiles) ==
  IF Len(snapshotFiles) > maxSnapshots
  THEN SubSeq(snapshotFiles, 1, Len(snapshotFiles) - maxSnapshots)
  ELSE <<>>

Range(f) == {f[i] : i \in DOMAIN f}

\* A store that writes the two files and never cleans up.
StoreSnapshotHistoryWithoutCleanup(dir, snapshot, stamp) ==
  [snapshots |-> dir.snapshots \cup {stamp},
   metadata |-> {m \in dir.metadata : m.stamp # stamp}
                \cup {[stamp |-> stamp, timestamp |-> snapshot.timestamp]}]

\* the directory after the two writes and the clean-up
StoreSnapshotHistory(dir, snapshot, stamp) ==
  LET written == [snapshots |-> dir.snapshots \cup {stamp},
                  metadata |-> {m \in dir.metadata : m.stamp # stamp}
                               \cup {[stamp |-> stamp, timestamp |-> snapshot.timestamp]}]
      deleted == Range(FilesToDelete(SortedFiles(written.snapshots)))
  IN  [snapshots |-> written.snapshots \ deleted,
       metadata |-> {m \in written.metadata : m.stamp \notin deleted}]

EmptyDir == [snapshots |-> {}, metadata |-> {}]

(***************************************************************************)
(* _sendAlerts, lines 490-507: one attempt per webhook, each in its own    *)
(* try/catch.  delivered[i] tells whether the send to webhook i succeeds.  *)
(***************************************************************************)
RECURSIVE SendAlerts(_, _)
SendAlerts(i, delivered) ==
  IF i > Len(webhooks) THEN <<>>
  ELSE <<[webhook |-> i, type |-> webhooks[i].type, delivered |-> delivered[i]]>>
       \o SendAlerts(i + 1, delivered)

\* A dispatch whose loop is left by the first webhook that fails.
RECURSIVE SendAlertsUntilFailure(_, _)
SendAlertsUntilFailure(i, delivered) ==
  IF i > Len(webhooks) THEN <<>>
  ELSE <<[webhook |-> i, type |-> webhooks[i].type, delivered |-> delivered[i]]>>
       \o (IF delivered[i] THEN SendAlertsUntilFailure(i + 1, delivered) ELSE <<>>)

_sendAlertsUntilFailure(delivered) == SendAlertsUntilFailure(1, delivered)

\* lines 490-507: every webhook in turn, each inside its own try
_sendAlerts(delivered) == SendAlerts(1, delivered)

Slots == 1..MaxInFlight

Null == "null"

IdleCheck ==
  [pc |-> "idle", by |-> "none", queue |-> <<>>, results |-> <<>>,
   events |-> <<>>, alerts |-> <<>>, error |-> "none", failed |-> {}]

\* the invocation has returned or thrown and its caller has not resumed yet
Settling(c) == c.pc \in {"returned", "threw"}

\* The caller of a settled runCheck (the cron callback, an awaiting owner)
\* resumes before anything else runs: a settled invocation is still to be
\* read by it, and the next step of the model is that read.
Quiet == \A s \in Slots : ~Settling(checks[s])

\* the empty Map, the empty directory
Empty == [x \in {} |-> Null]

\* The surroundings of the default specification.
\*   renders[url]    the screenshots the element at url may give
\*   elementMissing  the urls whose element may be missing or fail to be
\*                   photographed (lines 300-303, 319-321)
\*   captureThrows   whether a capture batch may throw
\*   writeFails      whether a write of a baseline file may fail
\*   readFails       whether a read of a baseline file may fail
\*   scheduleValid   whether config.schedule is a cron expression that
\*                   cron.schedule accepts (it throws on any other)
\*   observed        whether the calls of the public interface are observed
\*   detailed        whether their arguments and captures are observed too
\*   horizon         the clock's last instant
\*   inflight        the runCheck invocations that may be in flight at once
MainEnv ==
  [renders |-> (UrlA :> {Reference, Changed4}) @@ (UrlB :> {Reference}),
   elementMissing |-> {UrlA},
   captureThrows |-> TRUE,
   writeFails |-> FALSE,
   readFails |-> FALSE,
   scheduleValid |-> TRUE,
   observed |-> FALSE,
   detailed |-> FALSE,
   horizon |-> MaxTime,
   inflight |-> MaxInFlight]

\* Storage that fails, under one runCheck at a time.
StorageEnv ==
  [MainEnv EXCEPT !.writeFails = TRUE, !.readFails = TRUE, !.inflight = 1]

\* Every rendering of the first page, on surroundings that do not fail.
CompareEnv ==
  [MainEnv EXCEPT !.renders = (UrlA :> Images) @@ (UrlB :> {Reference}),
                  !.elementMissing = {}, !.captureThrows = FALSE, !.inflight = 1]

\* One target (the element of the second page is never there), one
\* rendering, a longer run.
HistoryEnv ==
  [MainEnv EXCEPT !.renders = (UrlA :> {Reference}) @@ (UrlB :> {}),
                  !.elementMissing = {UrlB}, !.captureThrows = FALSE,
                  !.horizon = MaxHistoryTime]

\* no call of the public interface: a step of a runCheck in flight, or a
\* fresh process
\* what a call was given and met: its arguments, what its capture returned
\* (as registry entries, in the order captured), the write that failed (0:
\* none), the baseline files that could not be read,
\* and whether the call before it was the same call, given and meeting the
\* same, and did not throw
NoDetail ==
  [args |-> <<>>, captured |-> <<>>, failedWrite |-> 0, unreadable |-> {},
   repeated |-> FALSE]

NoCall ==
  [op |-> "none", running |-> FALSE, threw |-> FALSE, emitted |-> <<>>,
   detail |-> NoDetail]

\* the call op, made in the current state, threw or not and emitted events
CalledWith(op, threw, emitted, detail) ==
  IF env.observed
  THEN [op |-> op, running |-> isRunning, threw |-> threw, emitted |-> emitted,
        detail |-> IF env.detailed
                   THEN [detail EXCEPT !.repeated =
                           /\ lastCall.op = op
                           /\ ~lastCall.threw
                           /\ lastCall.detail.args = detail.args
                           /\ lastCall.detail.captured = detail.captured]
                   ELSE NoDetail]
  ELSE NoCall

Called(op, threw, emitted) == CalledWith(op, threw, emitted, NoDetail)

\* the registry entries of a capture, in its order
Entries(snapshots) == [i \in 1..Len(snapshots) |-> Entry(snapshots[i])]

\* no target has been handed to the key helpers
\* a call of _storeSnapshotHistory that is not in progress
IdleStore == [pc |-> "idle", stamp |-> 0, filesToDelete |-> <<>>]

NoTargets ==
  [targets |-> <<>>, keys |-> <<>>, files |-> <<>>, dirs |-> <<>>,
   history |-> Empty, stored |-> <<>>,
   dir |-> EmptyDir, stores |-> [s \in Slots |-> IdleStore], begun |-> 0]

\* The scheduler under observation: one rendering of each page, captures
\* that may throw, one runCheck at a time, a schedule that may be invalid.
ScheduleEnv ==
  [MainEnv EXCEPT !.renders = (UrlA :> {Reference}) @@ (UrlB :> {Reference}),
                  !.elementMissing = {}, !.observed = TRUE, !.inflight = 1]

\* constructor, lines 10-40: a fresh process over the storage as it is
InitIn(e) ==
  /\ env = e
  /\ lastCall = NoCall
  /\ derived = NoTargets
  /\ now = 0
  /\ isRunning = FALSE
  /\ cronJob = Null
  /\ baselineSnapshots = Empty
  /\ baselineFiles = Empty
  /\ historyFiles = Empty
  /\ historyLog = Empty
  /\ diffFiles = {}
  /\ checks = [s \in Slots |-> IdleCheck]
  /\ starting = 0
  /\ orphans = 0
  /\ browsers = 0

Construct ==
  /\ Quiet
  /\ isRunning' = FALSE
  /\ cronJob' = Null
  /\ baselineSnapshots' = Empty
  /\ checks' = [s \in Slots |-> IdleCheck]
  /\ lastCall' = NoCall
  /\ starting' = 0
  /\ orphans' = 0
  /\ browsers' = 0
  /\ UNCHANGED <<now, baselineFiles, historyFiles, historyLog, diffFiles,
                 derived, env>>

(***************************************************************************)
(* createBaselines, lines 107-136.                                         *)
(***************************************************************************)
CreateBaselines ==
  /\ Quiet
  /\ now < env.horizon
  /\ now' = now + 1
  /\ \E capture \in CaptureOutcomes(urls, viewports, selectors, now + 1) :
     /\ browsers' = browsers + LeftOpen(capture)
     /\ IF capture.threw
       THEN /\ lastCall' = Called("createBaselines", TRUE, <<>>)
            /\ UNCHANGED <<baselineSnapshots, baselineFiles>>
       ELSE \E failAt \in FailingWrites(capture.snapshots) :
              LET saved == SaveBaselines(baselineSnapshots, baselineFiles,
                                         capture.snapshots, 1, failAt)
                  met == [NoDetail EXCEPT !.captured = Entries(capture.snapshots),
                                          !.failedWrite = failAt]
              IN  /\ baselineSnapshots' = saved.registry
                  /\ baselineFiles' = saved.files
                  /\ lastCall' = IF saved.threw
                                 THEN CalledWith("createBaselines", TRUE, <<>>, met)
                                 ELSE CalledWith("createBaselines", FALSE,
                                                 <<"baselines-created">>, met)
  /\ UNCHANGED <<isRunning, cronJob, historyFiles, historyLog, diffFiles, checks,
                 derived, env, starting, orphans>>

(***************************************************************************)
(* start, lines 45-84, and stop, lines 89-102.                             *)
(***************************************************************************)
\* A start that arms whatever expression it is given.
ArmUnchecked(emitted, met) ==
  /\ cronJob' = "scheduled"
  /\ orphans' = orphans + (IF cronJob = "scheduled" THEN 1 ELSE 0)
  /\ isRunning' = TRUE
  /\ lastCall' = CalledWith("start", FALSE, Append(emitted, "started"), met)

\* lines 62-76: cron.schedule throws on an expression it does not accept,
\* before cronJob and isRunning are assigned and 'started' is emitted.  The
\* job it returns replaces the one this.cronJob referred to, which nothing
\* stops: if that one was armed it stays armed.
Arm(emitted, met) ==
  IF env.scheduleValid
  THEN /\ cronJob' = "scheduled"
       /\ orphans' = orphans + (IF cronJob = "scheduled" THEN 1 ELSE 0)
       /\ isRunning' = TRUE
       /\ lastCall' = CalledWith("start", FALSE, Append(emitted, "started"), met)
  ELSE /\ UNCHANGED <<cronJob, isRunning, orphans>>
       /\ lastCall' = CalledWith("start", TRUE, emitted, met)

\* A start() without lines 57-59: it arms the schedule over whatever was
\* loaded, an empty registry included.
StartIdleWithoutCreation ==
       \E readable \in ReadableFiles(baselineFiles) :
         LET loaded == LoadBaselines(baselineSnapshots, baselineFiles, readable)
             unread == [NoDetail EXCEPT !.unreadable = DOMAIN baselineFiles \ readable]
         IN  /\ baselineSnapshots' = loaded
             /\ Arm(<<>>, unread)
             /\ UNCHANGED <<now, baselineFiles, historyFiles, historyLog,
                            diffFiles, checks, derived, env, browsers>>

\* lines 51-83: what a start() does past its guard
StartIdle ==
       \E readable \in ReadableFiles(baselineFiles) :
         LET loaded == LoadBaselines(baselineSnapshots, baselineFiles, readable)
             unread == [NoDetail EXCEPT !.unreadable = DOMAIN baselineFiles \ readable]
         IN  IF DOMAIN loaded # {}
             THEN /\ baselineSnapshots' = loaded
                  /\ Arm(<<>>, unread)
                  /\ UNCHANGED <<now, baselineFiles, historyFiles, historyLog,
                                 diffFiles, checks, derived, env, browsers>>
             ELSE /\ now < env.horizon
                  /\ now' = now + 1
                  /\ \E capture \in CaptureOutcomes(urls, viewports, selectors, now + 1) :
                       \E failAt \in FailingWrites(capture.snapshots) :
                         LET saved == SaveBaselines(loaded, baselineFiles,
                                                    capture.snapshots, 1, failAt)
                             met == [unread EXCEPT
                                       !.captured = Entries(capture.snapshots),
                                       !.failedWrite = failAt]
                         IN  /\ baselineSnapshots' = saved.registry
                             /\ baselineFiles' = saved.files
                             /\ browsers' = browsers + LeftOpen(capture)
                             /\ IF capture.threw \/ saved.threw
                                THEN /\ UNCHANGED <<cronJob, isRunning, orphans>>
                                     /\ lastCall' = CalledWith("start", TRUE, <<>>, met)
                                ELSE Arm(<<"baselines-created">>, met)
                  /\ UNCHANGED <<historyFiles, historyLog, diffFiles, checks,
                                 derived, env>>

\* A start without the guard of lines 46-48.
StartUnguarded ==
  /\ Quiet
  /\ StartIdle
  /\ UNCHANGED starting

Start ==
  /\ Quiet
  /\ IF isRunning
     THEN /\ lastCall' = Called("start", FALSE, <<>>)
          /\ UNCHANGED monitor
     ELSE StartIdle /\ UNCHANGED starting

\* start() as it runs among other calls: the guard of lines 46-48 and the
\* first await (line 51) ...
StartCall ==
  /\ Quiet
  /\ IF isRunning
     THEN /\ lastCall' = Called("start", FALSE, <<>>)
          /\ UNCHANGED monitor
     ELSE /\ starting + orphans < MaxStarts
          /\ starting' = starting + 1
          /\ lastCall' = NoCall
          /\ UNCHANGED <<now, isRunning, cronJob, baselineSnapshots, baselineFiles,
                         historyFiles, historyLog, diffFiles, checks, derived, env,
                         orphans, browsers>>

\* ... and, once its awaits are over, the rest of it (lines 54-83); isRunning
\* is not read again
StartResume ==
  /\ Quiet
  /\ starting > 0
  /\ starting' = starting - 1
  /\ StartIdle

\* A stop without the guard of lines 90-92.
StopUnguarded ==
  /\ Quiet
  /\ cronJob' = "stopped"
  /\ isRunning' = FALSE
  /\ lastCall' = Called("stop", FALSE, <<"stopped">>)
  /\ UNCHANGED <<now, baselineSnapshots, baselineFiles, historyFiles,
                 historyLog, diffFiles, checks, derived, env,
                 starting, orphans, browsers>>

\* A stop that also abandons the invocations in flight.
StopCancelling ==
  /\ Quiet
  /\ IF ~isRunning \/ cronJob = Null
     THEN /\ lastCall' = Called("stop", FALSE, <<>>)
          /\ UNCHANGED monitor
     ELSE /\ cronJob' = "stopped"
          /\ isRunning' = FALSE
          /\ checks' = [s \in Slots |-> IdleCheck]
          /\ lastCall' = Called("stop", FALSE, <<"stopped">>)
          /\ UNCHANGED <<now, baselineSnapshots, baselineFiles, historyFiles,
                         historyLog, diffFiles, derived, env,
                 starting, orphans, browsers>>

Stop ==
  /\ Quiet
  /\ IF ~isRunning \/ cronJob = Null
     THEN /\ lastCall' = Called("stop", FALSE, <<>>)
          /\ UNCHANGED monitor
     ELSE /\ cronJob' = "stopped"
          /\ isRunning' = FALSE
          /\ lastCall' = Called("stop", FALSE, <<"stopped">>)
          /\ UNCHANGED <<now, baselineSnapshots, baselineFiles, historyFiles,
                         historyLog, diffFiles, checks, derived, env,
                 starting, orphans, browsers>>

(***************************************************************************)
(* acceptCurrentAsBaseline, lines 230-269.                                 *)
(***************************************************************************)
\* this.config.viewports.find(v => v.name === viewport)
FindViewport(name) ==
  IF \E i \in 1..Len(viewports) : viewports[i].name = name
  THEN ViewportNamed(name)
  ELSE UndefinedViewport

\* An accept that takes an empty capture for a capture.
NoSnapshotAccepted(snapshots) == FALSE

\* lines 236-238
NoSnapshot(snapshots) == Len(snapshots) = 0

\* An accept that also files the first capture in the history of its key.
AcceptCurrentAsBaselineFiled(url, viewport, selector) ==
  /\ Quiet
  /\ now < env.horizon
  /\ now' = now + 1
  /\ \E capture \in CaptureOutcomes(
                      <<url>>,
                      IF viewport # Undefined THEN <<FindViewport(viewport)>> ELSE viewports,
                      IF selector # Undefined THEN <<selector>> ELSE selectors,
                      now + 1) :
       IF capture.threw \/ Len(capture.snapshots) = 0
       THEN /\ lastCall' = CalledWith("acceptCurrentAsBaseline", TRUE, <<>>,
                                      [NoDetail EXCEPT !.args = <<url, viewport, selector>>])
            /\ UNCHANGED <<baselineSnapshots, baselineFiles, historyFiles, historyLog>>
       ELSE LET saved == SaveBaselines(baselineSnapshots, baselineFiles,
                                       capture.snapshots, 1, 0)
                met == [NoDetail EXCEPT !.args = <<url, viewport, selector>>,
                                        !.captured = Entries(capture.snapshots)]
                dir == Sanitized(KeyOf(capture.snapshots[1]))
                files == IF dir \in DOMAIN historyFiles THEN historyFiles[dir]
                         ELSE EmptyDir
                log == IF dir \in DOMAIN historyLog THEN historyLog[dir] ELSE <<>>
            IN  /\ baselineSnapshots' = saved.registry
                /\ baselineFiles' = saved.files
                /\ historyFiles' = Put(historyFiles, dir,
                                       StoreSnapshotHistory(files, capture.snapshots[1],
                                                            now'))
                /\ historyLog' = Put(historyLog, dir,
                                     Append(log, [stamp |-> now', timestamp |-> now']))
                /\ lastCall' = CalledWith("acceptCurrentAsBaseline", FALSE,
                                          <<"baseline-updated">>, met)
  /\ UNCHANGED <<isRunning, cronJob, diffFiles, checks, derived, env,
                 starting, orphans, browsers>>

AcceptCurrentAsBaseline(url, viewport, selector) ==
  /\ Quiet
  /\ now < env.horizon
  /\ now' = now + 1
  /\ \E capture \in CaptureOutcomes(
                      <<url>>,
                      IF viewport # Undefined THEN <<FindViewport(viewport)>> ELSE viewports,
                      IF selector # Undefined THEN <<selector>> ELSE selectors,
                      now + 1) :
     /\ browsers' = browsers + LeftOpen(capture)
     /\ IF capture.threw \/ NoSnapshot(capture.snapshots)
       THEN /\ lastCall' = CalledWith("acceptCurrentAsBaseline", TRUE, <<>>,
                                      [NoDetail EXCEPT !.args = <<url, viewport, selector>>])
            /\ UNCHANGED <<baselineSnapshots, baselineFiles>>
       ELSE \E failAt \in FailingWrites(capture.snapshots) :
              LET saved == SaveBaselines(baselineSnapshots, baselineFiles,
                                         capture.snapshots, 1, failAt)
                  met == [NoDetail EXCEPT !.args = <<url, viewport, selector>>,
                                          !.captured = Entries(capture.snapshots),
                                          !.failedWrite = failAt]
              IN  /\ baselineSnapshots' = saved.registry
                  /\ baselineFiles' = saved.files
                  /\ lastCall' = IF saved.threw
                                 THEN CalledWith("acceptCurrentAsBaseline", TRUE, <<>>, met)
                                 ELSE CalledWith("acceptCurrentAsBaseline", FALSE,
                                                 <<"baseline-updated">>, met)
  /\ UNCHANGED <<isRunning, cronJob, historyFiles, historyLog, diffFiles, checks,
                 derived, env, starting, orphans>>

(***************************************************************************)
(* runCheck, lines 141-225.  An invocation occupies a slot from its call   *)
(* until it returns or throws; the slot keeps what that invocation         *)
(* returned and emitted until the next invocation takes it.                *)
(***************************************************************************)
Free(c) == c.pc = "idle"

FreeSlot == CHOOSE s \in Slots : Free(checks[s]) /\ \A r \in 1..(s - 1) : ~Free(checks[r])

\* A callback whose catch swallows the rejection.
ThrownSilently(c, error) ==
  [c EXCEPT !.pc = "threw", !.queue = <<>>, !.error = error]

\* the rejection of the invocation; the cron callback (lines 65-68) turns
\* it into an 'error' event
Thrown(c, error) ==
  [c EXCEPT !.pc = "threw", !.queue = <<>>, !.error = error,
            !.events = IF c.by = "cron" THEN Append(@, "error") ELSE @]

\* A loop that emits 'check-completed' at the end of every iteration.
ContinueEmittingEach(c) ==
  IF Len(c.queue) > 1
  THEN [c EXCEPT !.queue = Tail(@),
                 !.events = Append(@, "check-completed")]
  ELSE [c EXCEPT !.pc = "returned", !.queue = <<>>,
                 !.events = Append(@, "check-completed")]

\* after a loop iteration: the next snapshot, or lines 219-224
Continue(c) ==
  IF Len(c.queue) > 1
  THEN [c EXCEPT !.queue = Tail(@)]
  ELSE [c EXCEPT !.pc = "returned", !.queue = <<>>,
                 !.events = Append(@, "check-completed")]

\* A lenient runCheck: with no baseline at all it goes on to capture, and
\* bootstraps every key.
BeginCheckLenient(by) ==
  /\ Quiet
  /\ Cardinality({s \in Slots : ~Free(checks[s])}) < env.inflight
  /\ now < env.horizon
  /\ checks' = [checks EXCEPT ![FreeSlot] =
                  [IdleCheck EXCEPT !.pc = "capturing", !.by = by]]
  /\ browsers' = browsers + 1
  /\ UNCHANGED <<now, isRunning, cronJob, baselineSnapshots, baselineFiles,
                 historyFiles, historyLog, diffFiles, derived, env,
                 starting, orphans>>
  /\ lastCall' = NoCall

\* lines 142-146: the call, up to the await of the capture, whose first
\* await is the launch of its browser (line 279)
BeginCheck(by) ==
  /\ Quiet
  /\ Cardinality({s \in Slots : ~Free(checks[s])}) < env.inflight
  /\ now < env.horizon
  /\ checks' = [checks EXCEPT ![FreeSlot] =
                  IF DOMAIN baselineSnapshots = {}
                  THEN Thrown([IdleCheck EXCEPT !.by = by], "no-baselines")
                  ELSE [IdleCheck EXCEPT !.pc = "capturing", !.by = by]]
  /\ browsers' = IF DOMAIN baselineSnapshots = {} THEN browsers ELSE browsers + 1
  /\ UNCHANGED <<now, isRunning, cronJob, baselineSnapshots, baselineFiles,
                 historyFiles, historyLog, diffFiles, derived, env,
                 starting, orphans>>
  /\ lastCall' = NoCall

\* the callback of cron.schedule, lines 62-69: every tick of an armed
\* schedule calls runCheck
CronTick ==
  /\ (cronJob = "scheduled" \/ orphans > 0)
  /\ BeginCheck("cron")

\* a call of runCheck by the owner of the monitor
RunCheck == BeginCheck("manual")

\* line 146: the capture batch ends
CaptureDone(s) ==
  /\ Quiet
  /\ checks[s].pc = "capturing"
  /\ now < env.horizon
  /\ now' = now + 1
  /\ \E capture \in CaptureOutcomes(urls, viewports, selectors, now + 1) :
       /\ browsers' = browsers - 1 + LeftOpen(capture)
       /\ checks' = [checks EXCEPT ![s] =
                    IF capture.threw
                    THEN Thrown([@ EXCEPT !.failed = capture.failed],
                                capture.error)
                    ELSE IF capture.snapshots = <<>>
                         THEN Continue([@ EXCEPT !.failed = capture.failed])
                         ELSE [@ EXCEPT !.pc = "processing",
                                        !.queue = capture.snapshots,
                                        !.failed = capture.failed]]
  /\ UNCHANGED <<isRunning, cronJob, baselineSnapshots, baselineFiles,
                 historyFiles, historyLog, diffFiles, derived, env,
                 starting, orphans>>
  /\ lastCall' = NoCall

\* A registry that answers a miss with the baselines of the other keys: the
\* first observation of a key is then compared instead of bootstrapped.
BaselineOfAnyKey(registry, key) ==
  IF key \in DOMAIN registry THEN {registry[key]}
  ELSE {registry[k] : k \in DOMAIN registry}

\* line 151
\* the baseline of the key, as a set: empty when get() returns undefined
BaselineOf(registry, key) ==
  IF key \in DOMAIN registry THEN {registry[key]} ELSE {}

\* lines 166-172
NewBaselineResult(snapshot) ==
  [url |-> snapshot.url, viewport |-> snapshot.viewport.name,
   selector |-> snapshot.selector, status |-> "new-baseline"]

\* lines 184-193; the ratio diffPercentage is the pair <<count, total>>
ComparedResult(snapshot, comparison, diffImagePath) ==
  [url |-> snapshot.url, viewport |-> snapshot.viewport.name,
   selector |-> snapshot.selector,
   status |-> IF comparison.exceedsThreshold THEN "alert" ELSE "ok",
   diffPercentage |-> <<comparison.diffPixelCount, comparison.totalPixels>>,
   exceedsThreshold |-> comparison.exceedsThreshold,
   diffImagePath |-> diffImagePath]

\* lines 412-417: the name of the diff image
DiffImagePath(key, stamp) == <<Sanitized(key), stamp>>

\* diffImagePath = null
NoPath == <<>>

HistoryDir(key) == Sanitized(key)

DirFiles(dir) == IF dir \in DOMAIN historyFiles THEN historyFiles[dir] ELSE EmptyDir

DirLog(dir) == IF dir \in DOMAIN historyLog THEN historyLog[dir] ELSE <<>>

\* lines 153-175: the first observation of a key
Bootstrap(s, snapshot, key) ==
  /\ baselineSnapshots' = Put(baselineSnapshots, key, Entry(snapshot))
  /\ \E written \in {TRUE} \cup {~env.writeFails} :
       IF written
       THEN /\ baselineFiles' = Put(baselineFiles, BaselineFile(key), snapshot.buffer)
            /\ checks' = [checks EXCEPT ![s] =
                            Continue([@ EXCEPT !.results =
                                        Append(@, NewBaselineResult(snapshot))])]
       ELSE /\ UNCHANGED baselineFiles
            /\ checks' = [checks EXCEPT ![s] = Thrown(@, "write")]
  /\ UNCHANGED <<now, historyFiles, historyLog, diffFiles>>

\* A runCheck that hands every compared target to the dispatcher.
RaisesAlertAlways(comparison) == TRUE

\* line 196: the alert is raised and dispatched when the threshold is exceeded
RaisesAlert(comparison) == comparison.exceedsThreshold

\* A dispatch whose failed delivery rejects, and the invocation with it.
AfterAlertsRejecting(c, attempts) ==
  IF \E i \in DOMAIN attempts : ~attempts[i].delivered
  THEN Thrown(c, "alert")
  ELSE Continue(c)

\* lines 206-215: the await of _sendAlerts resolves whatever the deliveries
\* did (each is caught, lines 503-505), and the loop goes on
AfterAlerts(c, attempts) == Continue(c)

\* lines 177-216: compare, store in the history, report, alert
Compare(s, snapshot, key, baseline) ==
  IF ~SizesMatchOfImages[<<baseline.buffer, snapshot.buffer>>]
  THEN /\ checks' = [checks EXCEPT ![s] = Thrown(@, "dimensions")]
       /\ UNCHANGED <<now, baselineSnapshots, baselineFiles, historyFiles,
                      historyLog, diffFiles>>
  ELSE \E elapsed \in {0, 1} :
         /\ now + elapsed <= env.horizon
         /\ now' = now + elapsed
         /\ LET comparison == ComparisonOfImages[<<baseline.buffer, snapshot.buffer>>]
                diffImagePath == IF WritesDiffImage(comparison)
                                 THEN DiffImagePath(key, now')
                                 ELSE NoPath
                result == ComparedResult(snapshot, comparison, diffImagePath)
            IN  /\ diffFiles' = IF WritesDiffImage(comparison)
                                THEN diffFiles \cup {diffImagePath}
                                ELSE diffFiles
                /\ historyFiles' = Put(historyFiles, HistoryDir(key),
                                       StoreSnapshotHistory(DirFiles(HistoryDir(key)),
                                                            snapshot, now'))
                /\ historyLog' = Put(historyLog, HistoryDir(key),
                                     Append(DirLog(HistoryDir(key)),
                                            [stamp |-> now',
                                             timestamp |-> snapshot.timestamp]))
                /\ IF RaisesAlert(comparison)
                   THEN \E delivered \in [1..Len(webhooks) -> BOOLEAN] :
                          checks' = [checks EXCEPT ![s] =
                            AfterAlerts([@ EXCEPT
                              !.results = Append(@, result),
                              !.events = Append(@, "visual-regression-detected"),
                              !.alerts = Append(@, [url |-> snapshot.url,
                                                    viewport |-> snapshot.viewport.name,
                                                    selector |-> snapshot.selector,
                                                    attempts |-> _sendAlerts(delivered)])],
                              _sendAlerts(delivered))]
                   ELSE checks' = [checks EXCEPT ![s] =
                          Continue([@ EXCEPT !.results = Append(@, result)])]
         /\ UNCHANGED <<baselineSnapshots, baselineFiles>>

\* one iteration of the loop of line 149
ProcessSnapshot(s) ==
  /\ Quiet
  /\ checks[s].pc = "processing"
  /\ LET snapshot == Head(checks[s].queue)
         key == KeyOf(snapshot)
         baseline == BaselineOf(baselineSnapshots, key)
     IN  IF baseline = {}
         THEN Bootstrap(s, snapshot, key)
         ELSE \E b \in baseline : Compare(s, snapshot, key, b)
  /\ lastCall' = NoCall
  /\ UNCHANGED <<isRunning, cronJob, derived, env,
                 starting, orphans, browsers>>

\* the caller of a settled invocation (the cron callback of a tick, or the
\* owner that awaited runCheck) resumes; the slot is free again
Settle(s) ==
  /\ Settling(checks[s])
  /\ checks' = [checks EXCEPT ![s] = IdleCheck]
  /\ UNCHANGED <<now, isRunning, cronJob, baselineSnapshots, baselineFiles,
                 historyFiles, historyLog, diffFiles, derived, env,
                 starting, orphans, browsers>>
  /\ lastCall' = Called(IF checks[s].by = "cron" THEN "tick" ELSE "runCheck",
                        checks[s].pc = "threw", checks[s].events)

Next ==
  \/ Construct
  \/ Start
  \/ Stop
  \/ CreateBaselines
  \/ \E url \in Range(urls) \cup {Undefined},
        viewport \in {viewports[i].name : i \in DOMAIN viewports} \cup {Undefined},
        selector \in Range(selectors) \cup {Undefined} :
       AcceptCurrentAsBaseline(url, viewport, selector)
  \/ CronTick
  \/ RunCheck
  \/ \E s \in Slots : CaptureDone(s)
  \/ \E s \in Slots : ProcessSnapshot(s)
  \/ \E s \in Slots : Settle(s)

Init == InitIn(MainEnv)

Spec == Init /\ [][Next]_vars

\* Pages that render one way, two invocations at most, so that what varies
\* is how the capture batches end: launch or navigation fails, an element
\* is missing, or the batch returns.
BrowserEnv ==
  [MainEnv EXCEPT !.renders = (UrlA :> {Reference}) @@ (UrlB :> {Reference}),
                  !.inflight = 2]

InitBrowser == InitIn(BrowserEnv)

SpecBrowser == InitBrowser /\ [][Next]_vars

InitStorage == InitIn(StorageEnv)

SpecStorage == InitStorage /\ [][Next]_vars

InitCompare == InitIn(CompareEnv)

SpecCompare == InitCompare /\ [][Next]_vars

\* the history of one target under manual checks that may overlap
NextHistory ==
  \/ CreateBaselines
  \/ RunCheck
  \/ \E s \in Slots : CaptureDone(s)
  \/ \E s \in Slots : ProcessSnapshot(s)
  \/ \E s \in Slots : Settle(s)

InitHistory == InitIn(HistoryEnv)

\* One target with two renderings, a longer run, two invocations at most:
\* the history fills up under comparisons of either outcome.
RetentionEnv ==
  [HistoryEnv EXCEPT !.renders = (UrlA :> {Reference, Changed4}) @@ (UrlB :> {}),
                     !.inflight = 2]

InitRetention == InitIn(RetentionEnv)

SpecRetention == InitRetention /\ [][NextHistory]_vars

InitSchedule ==
  \E valid \in BOOLEAN : InitIn([ScheduleEnv EXCEPT !.scheduleValid = valid])

SpecSchedule == InitSchedule /\ [][Next]_vars

SpecHistory == InitHistory /\ [][NextHistory]_vars

\* The scheduler under calls of start() that may overlap: one rendering of
\* each page, captures that do not throw, one runCheck at a time.
StartupEnv == [ScheduleEnv EXCEPT !.captureThrows = FALSE]

InitStartup == InitIn(StartupEnv)

NextStartup ==
  \/ Construct
  \/ StartCall
  \/ StartResume
  \/ Stop
  \/ CronTick
  \/ RunCheck
  \/ \E s \in Slots : CaptureDone(s)
  \/ \E s \in Slots : ProcessSnapshot(s)
  \/ \E s \in Slots : Settle(s)

SpecStartup == InitStartup /\ [][NextStartup]_vars

\* The owner's calls under observation, with their arguments and captures:
\* two renderings of the first page, captures that do not fail, one
\* runCheck at a time, no schedule.
AcceptEnv ==
  [MainEnv EXCEPT !.elementMissing = {}, !.captureThrows = FALSE,
                  !.observed = TRUE, !.detailed = TRUE, !.inflight = 1]

InitAccept == InitIn(AcceptEnv)

\* the calls of an owner that does not start the schedule
NextOwner ==
  \/ CreateBaselines
  \/ \E url \in Range(urls) \cup {Undefined},
        viewport \in {viewports[i].name : i \in DOMAIN viewports} \cup {Undefined},
        selector \in Range(selectors) \cup {Undefined} :
       AcceptCurrentAsBaseline(url, viewport, selector)
  \/ RunCheck
  \/ \E s \in Slots : CaptureDone(s)
  \/ \E s \in Slots : ProcessSnapshot(s)
  \/ \E s \in Slots : Settle(s)

SpecAccept == InitAccept /\ [][NextOwner]_vars

\* The same owner before a first page whose element may be missing.
MissingEnv == [AcceptEnv EXCEPT !.elementMissing = {UrlA}]

InitMissing == InitIn(MissingEnv)

SpecMissing == InitMissing /\ [][NextOwner]_vars

\* One rendering of each page, over a baselines directory whose writes may
\* fail.
WriteEnv ==
  [MainEnv EXCEPT !.renders = (UrlA :> {Reference}) @@ (UrlB :> {Reference}),
                  !.elementMissing = {}, !.captureThrows = FALSE,
                  !.writeFails = TRUE,
                  !.observed = TRUE, !.detailed = TRUE, !.inflight = 1]

InitWrites == InitIn(WriteEnv)

SpecWrites == InitWrites /\ [][Next]_vars

\* One rendering of each page, over a baselines directory whose reads may
\* fail.
LoadEnv ==
  [MainEnv EXCEPT !.renders = (UrlA :> {Reference}) @@ (UrlB :> {Reference}),
                  !.elementMissing = {}, !.captureThrows = FALSE,
                  !.readFails = TRUE,
                  !.observed = TRUE, !.detailed = TRUE, !.inflight = 1]

InitLoads == InitIn(LoadEnv)

SpecLoads == InitLoads /\ [][Next]_vars

(***************************************************************************)
(* The key helpers on their own: two targets are drawn, then the key       *)
(* (_getSnapshotKey), the baseline file (lines 116-120) and the history    *)
(* directory (lines 436-440) of each are derived.                          *)
(***************************************************************************)
KeyUrls ==
  {UrlA, UrlB,
   HttpScheme \o <<"a", ".", "i", "o">>,
   HttpsScheme \o <<"a", ".", "i", "o", "?", "p">>}

KeyViewportNames == {Desktop, <<"m", "o", "b", "i", "l", "e">>}

KeySelectors == {Body, <<"n", "a", "v">>, <<"#", "n", "a", "v">>}

KeyTargets ==
  {[url |-> u, viewport |-> v, selector |-> x] :
     u \in KeyUrls, v \in KeyViewportNames, x \in KeySelectors}

InitKeys ==
  /\ env = MainEnv
  /\ lastCall = NoCall
  /\ now = 0
  /\ isRunning = FALSE
  /\ cronJob = Null
  /\ baselineSnapshots = Empty
  /\ baselineFiles = Empty
  /\ historyFiles = Empty
  /\ historyLog = Empty
  /\ diffFiles = {}
  /\ checks = [s \in Slots |-> IdleCheck]
  /\ starting = 0
  /\ orphans = 0
  /\ browsers = 0
  /\ \E a \in KeyTargets, b \in KeyTargets :
       derived = [NoTargets EXCEPT !.targets = <<a, b>>]

GetSnapshotKeys ==
  /\ derived.keys = <<>>
  /\ derived' = [derived EXCEPT !.keys =
                   [i \in 1..2 |-> _getSnapshotKey(derived.targets[i].url,
                                                   derived.targets[i].viewport,
                                                   derived.targets[i].selector)]]
  /\ UNCHANGED <<now, isRunning, cronJob, baselineSnapshots, baselineFiles,
                 historyFiles, historyLog, diffFiles, checks, lastCall, env,
                 starting, orphans, browsers>>

\* lines 116-120: <baseDir>/baselines/<sanitized key>.png
BaselinePaths ==
  /\ derived.keys # <<>>
  /\ derived.files = <<>>
  /\ derived' = [derived EXCEPT !.files =
                   [i \in 1..2 |-> _sanitizeFilename(derived.keys[i]) \o PngSuffix]]
  /\ UNCHANGED <<now, isRunning, cronJob, baselineSnapshots, baselineFiles,
                 historyFiles, historyLog, diffFiles, checks, lastCall, env,
                 starting, orphans, browsers>>

\* lines 436-440: <baseDir>/history/<sanitized key>
HistoryPaths ==
  /\ derived.keys # <<>>
  /\ derived.dirs = <<>>
  /\ derived' = [derived EXCEPT !.dirs =
                   [i \in 1..2 |-> _sanitizeFilename(derived.keys[i])]]
  /\ UNCHANGED <<now, isRunning, cronJob, baselineSnapshots, baselineFiles,
                 historyFiles, historyLog, diffFiles, checks, lastCall, env,
                 starting, orphans, browsers>>

NextKeys ==
  \/ GetSnapshotKeys
  \/ BaselinePaths
  \/ HistoryPaths

SpecKeys == InitKeys /\ [][NextKeys]_vars

\* _storeSnapshotHistory (lines 435-485) for the snapshot of target i, at
\* the next instant of a clock of its own
StoreHistory(i) ==
  /\ derived.dirs # <<>>
  /\ Len(derived.stored) < MaxStored
  /\ LET dir == derived.dirs[i]
         stamp == Len(derived.stored) + 1
         files == IF dir \in DOMAIN derived.history THEN derived.history[dir]
                  ELSE EmptyDir
     IN  derived' = [derived EXCEPT
                       !.history = Put(@, dir,
                                       StoreSnapshotHistory(files, [timestamp |-> stamp],
                                                            stamp)),
                       !.stored = Append(@, [target |-> i, stamp |-> stamp])]
  /\ UNCHANGED <<now, isRunning, cronJob, baselineSnapshots, baselineFiles,
                 historyFiles, historyLog, diffFiles, checks, lastCall, env,
                 starting, orphans, browsers>>

\* the histories of two targets, stored in any order
NextHistoryKeys ==
  \/ GetSnapshotKeys
  \/ HistoryPaths
  \/ \E i \in 1..2 : StoreHistory(i)

SpecHistoryKeys == InitKeys /\ [][NextHistoryKeys]_vars

(***************************************************************************)
(* _storeSnapshotHistory, lines 435-485, await by await, on the history    *)
(* directory derived.dir of one key.  The calls are those of runCheck      *)
(* invocations, which may overlap: derived.stores[s] is the call of        *)
(* invocation s, derived.begun the time stamps handed out so far.          *)
(***************************************************************************)
HistoryStep(d) ==
  /\ derived' = d
  /\ UNCHANGED <<now, isRunning, cronJob, baselineSnapshots, baselineFiles,
                 historyFiles, historyLog, diffFiles, checks, lastCall, env,
                 starting, orphans, browsers>>

\* lines 445-449: the time stamp is taken and snapshot-<stamp>.png written
WriteSnapshotFile(s) ==
  /\ derived.stores[s].pc = "idle"
  /\ derived.begun < MaxStored
  /\ LET stamp == derived.begun + 1
     IN  HistoryStep([derived EXCEPT
           !.begun = stamp,
           !.dir.snapshots = @ \cup {stamp},
           !.stores[s] = [pc |-> "snapshot-written", stamp |-> stamp,
                          filesToDelete |-> <<>>]])

\* lines 452-464: metadata-<stamp>.json is written
WriteMetadataFile(s) ==
  /\ derived.stores[s].pc = "snapshot-written"
  /\ LET stamp == derived.stores[s].stamp
     IN  HistoryStep([derived EXCEPT
           !.dir.metadata = {m \in @ : m.stamp # stamp}
                            \cup {[stamp |-> stamp, timestamp |-> stamp]},
           !.stores[s].pc = "metadata-written"])

\* lines 468-473: the directory is listed and the files to delete chosen;
\* with none to delete the call returns
ListHistory(s) ==
  /\ derived.stores[s].pc = "metadata-written"
  /\ LET filesToDelete == FilesToDelete(SortedFiles(derived.dir.snapshots))
     IN  HistoryStep([derived EXCEPT
           !.stores[s] = IF filesToDelete = <<>> THEN IdleStore
                         ELSE [@ EXCEPT !.pc = "deleting",
                                        !.filesToDelete = filesToDelete]])

\* line 475: the next snapshot file is unlinked; if it is gone already the
\* unlink rejects, the catch of lines 481-483 logs it and the call returns
UnlinkSnapshot(s) ==
  /\ derived.stores[s].pc = "deleting"
  /\ LET file == Head(derived.stores[s].filesToDelete)
     IN  IF file \in derived.dir.snapshots
         THEN HistoryStep([derived EXCEPT
                !.dir.snapshots = @ \ {file},
                !.stores[s].pc = "snapshot-unlinked"])
         ELSE HistoryStep([derived EXCEPT !.stores[s] = IdleStore])

\* lines 478-479: the metadata file of the same stamp is unlinked; a
\* rejection (the file is not there) is swallowed
UnlinkedMetadata(metadata, file) == {m \in metadata : m.stamp # file}

\* lines 474-480: the metadata of the unlinked snapshot goes too, and the
\* loop goes on; after the last file the call returns
UnlinkMetadata(s) ==
  /\ derived.stores[s].pc = "snapshot-unlinked"
  /\ LET file == Head(derived.stores[s].filesToDelete)
         rest == Tail(derived.stores[s].filesToDelete)
     IN  HistoryStep([derived EXCEPT
           !.dir.metadata = UnlinkedMetadata(@, file),
           !.stores[s] = IF rest = <<>> THEN IdleStore
                         ELSE [@ EXCEPT !.pc = "deleting",
                                        !.filesToDelete = rest]])

NextPairing ==
  \/ \E s \in Slots : WriteSnapshotFile(s)
  \/ \E s \in Slots : WriteMetadataFile(s)
  \/ \E s \in Slots : ListHistory(s)
  \/ \E s \in Slots : UnlinkSnapshot(s)
  \/ \E s \in Slots : UnlinkMetadata(s)

\* the history directory of one key under calls that may overlap
SpecPairing == InitRetention /\ [][NextPairing]_vars

(***************************************************************************)
(* A monitor over a baselines directory that an earlier configuration      *)
(* (other urls, viewports, selectors) has left a baseline in.              *)
(***************************************************************************)
\* the baseline file written for a target (lines 116-120)
StoredFile(t) == _sanitizeFilename(_getSnapshotKey(t.url, t.viewport, t.selector)) \o PngSuffix

ReloadEnv ==
  [MainEnv EXCEPT !.renders = (UrlA :> {Reference}) @@ (UrlB :> {Reference}),
                  !.elementMissing = {}, !.captureThrows = FALSE,
                  !.observed = TRUE, !.detailed = TRUE, !.inflight = 1]

InitReload ==
  /\ env = ReloadEnv
  /\ lastCall = NoCall
  /\ derived = NoTargets
  /\ now = 0
  /\ isRunning = FALSE
  /\ cronJob = Null
  /\ baselineSnapshots = Empty
  /\ \E t \in KeyTargets : baselineFiles = (StoredFile(t) :> Changed3)
  /\ historyFiles = Empty
  /\ historyLog = Empty
  /\ diffFiles = {}
  /\ checks = [s \in Slots |-> IdleCheck]
  /\ starting = 0
  /\ orphans = 0
  /\ browsers = 0

NextReload ==
  \/ Construct
  \/ Start
  \/ Stop
  \/ RunCheck
  \/ \E s \in Slots : CaptureDone(s)
  \/ \E s \in Slots : ProcessSnapshot(s)
  \/ \E s \in Slots : Settle(s)

SpecReload == InitReload /\ [][NextReload]_vars

(***************************************************************************)
(* Properties of the monitor.                                              *)
(***************************************************************************)

\* the targets runCheck captures
ConfiguredTargets == Range(Targets(urls, viewports, selectors))

\* the step is one iteration of the loop of line 149 by the invocation of slot s
Iterates(s) ==
  /\ checks[s].pc = "processing"
  /\ checks'[s] # checks[s]
  /\ checks'[s].pc # "idle"

\* the result the step appended for the invocation of slot s
Appended(s) == checks'[s].results[Len(checks'[s].results)]

\* the step appended one result and nothing of an alert for slot s
AppendsQuietly(s) ==
  /\ Len(checks'[s].results) = Len(checks[s].results) + 1
  /\ checks'[s].alerts = checks[s].alerts
  /\ checks'[s].events \in {checks[s].events,
                            Append(checks[s].events, "check-completed")}
  /\ diffFiles' = diffFiles

\* C1: when a runCheck iteration handles a snapshot whose key has no
\* baseline, the capture becomes the baseline of that key, the result
\* appended for the target has status 'new-baseline' (not 'alert'), and no
\* alert is raised or dispatched and no diff image is written.
C1_FirstObservationBecomesBaseline ==
  [][\A s \in Slots :
       LET snapshot == Head(checks[s].queue)
           key == _getSnapshotKey(snapshot.url, snapshot.viewport.name,
                                  snapshot.selector)
       IN  (Iterates(s) /\ key \notin DOMAIN baselineSnapshots) =>
             /\ key \in DOMAIN baselineSnapshots'
             /\ baselineSnapshots'[key].buffer = snapshot.buffer
             /\ baselineSnapshots'[key].url = snapshot.url
             /\ AppendsQuietly(s)
             /\ Appended(s).status = "new-baseline"
             /\ Appended(s).url = snapshot.url
             /\ Appended(s).selector = snapshot.selector]_vars

\* an invocation has reported 'new-baseline' for a target whose capture is
\* now the baseline of its key
C1_Witness ==
  \E s \in Slots : \E i \in DOMAIN checks[s].results :
    LET r == checks[s].results[i]
        key == _getSnapshotKey(r.url, r.viewport, r.selector)
    IN  /\ r.status = "new-baseline"
        /\ key \in DOMAIN baselineSnapshots
        /\ checks[s].alerts = <<>>

\* C2: the history of a key never holds more than maxSnapshots entries, and
\* an entry that was evicted was captured no later than every entry that is
\* retained (eviction is first in, first out by capture order).
C2_HistoryEvictsOldestCapture ==
  \A d \in DOMAIN historyFiles :
    /\ Cardinality(historyFiles[d].snapshots) <= maxSnapshots
    /\ \A i \in DOMAIN historyLog[d] :
         historyLog[d][i].stamp \notin historyFiles[d].snapshots =>
           \A m \in historyFiles[d].metadata :
             historyLog[d][i].timestamp <= m.timestamp

\* C3: at most one check started by the schedule is in flight at any time.
C3_OneScheduledCheckAtATime ==
  Cardinality({s \in Slots : /\ checks[s].by = "cron"
                             /\ checks[s].pc \in {"capturing", "processing"}}) <= 1

\* C4: an invocation in which the capture of some target failed (its
\* element was not found, or the navigation to its page timed out) still
\* returns, with a result for every target whose capture did not fail.
C4_CaptureFailureDoesNotAbortBatch ==
  \A s \in Slots :
    (/\ Settling(checks[s])
     /\ checks[s].failed # {}
     /\ checks[s].error \in {"none", "navigation"}) =>
      /\ checks[s].pc = "returned"
      /\ \A t \in ConfiguredTargets \ checks[s].failed :
           \E i \in DOMAIN checks[s].results :
             /\ checks[s].results[i].url = t.url
             /\ checks[s].results[i].viewport = t.viewport.name
             /\ checks[s].results[i].selector = t.selector

\* C5: the dispatch of an alert attempts every configured webhook, once and
\* in order, whether or not the deliveries before it failed.
C5_EveryChannelAttempted ==
  \A s \in Slots : \A i \in DOMAIN checks[s].alerts :
    LET attempts == checks[s].alerts[i].attempts
    IN  /\ Len(attempts) = Len(webhooks)
        /\ \A j \in DOMAIN attempts :
             /\ attempts[j].webhook = j
             /\ attempts[j].type = webhooks[j].type

\* the first webhook failed and the second was still attempted and delivered
C5_Witness ==
  \E s \in Slots : \E i \in DOMAIN checks[s].alerts :
    LET attempts == checks[s].alerts[i].attempts
    IN  /\ Len(attempts) = 2
        /\ ~attempts[1].delivered
        /\ attempts[2].delivered

\* C6: for every compared target, exceedsThreshold holds exactly when the
\* diff ratio is strictly greater than 0.03, and the status is 'alert'
\* exactly when exceedsThreshold holds and 'ok' otherwise: 4% is an alert,
\* 1% and exactly 3% are ok.
C6_StrictThreshold ==
  \A s \in Slots : \A i \in DOMAIN checks[s].results :
    LET r == checks[s].results[i]
    IN  r.status # "new-baseline" =>
          /\ r.exceedsThreshold = (r.diffPercentage[1] * 100 > 3 * r.diffPercentage[2])
          /\ r.status = (IF r.exceedsThreshold THEN "alert" ELSE "ok")
          /\ r.diffPercentage = <<4, 100>> => r.status = "alert"
          /\ r.diffPercentage = <<1, 100>> => r.status = "ok"
          /\ r.diffPercentage = <<3, 100>> => r.status = "ok"

\* a comparison whose ratio is exactly the threshold was reported 'ok'
C6_Witness ==
  \E s \in Slots : \E i \in DOMAIN checks[s].results :
    LET r == checks[s].results[i]
    IN  /\ r.status = "ok"
        /\ r.diffPercentage = <<3, 100>>
        /\ ~r.exceedsThreshold

\* C7: a result names a diff image only when the comparison exceeded the
\* threshold, and the diffs area changes only by the step of a comparison
\* that exceeded it, which adds the image the result names.
C7_DiffImageOnlyWhenExceeded ==
  /\ [](\A s \in Slots : \A i \in DOMAIN checks[s].results :
          LET r == checks[s].results[i]
          IN  r.status # "new-baseline" =>
                /\ r.diffImagePath # NoPath => r.exceedsThreshold
                /\ r.diffImagePath # NoPath => r.diffImagePath \in diffFiles)
  /\ [][diffFiles' # diffFiles =>
          \E s \in Slots :
            /\ Iterates(s)
            /\ Len(checks'[s].results) = Len(checks[s].results) + 1
            /\ Appended(s).status = "alert"
            /\ Appended(s).exceedsThreshold
            /\ diffFiles' = diffFiles \cup {Appended(s).diffImagePath}]_vars

\* a comparison found differing pixels below the threshold, named no diff
\* image, and the diffs area is still empty
C7_Witness ==
  /\ diffFiles = {}
  /\ \E s \in Slots : \E i \in DOMAIN checks[s].results :
       LET r == checks[s].results[i]
       IN  /\ r.status = "ok"
           /\ r.diffPercentage[1] > 0
           /\ r.diffImagePath = NoPath

\* C8: when the capture of a target is pixel-for-pixel the baseline image,
\* the comparison reports a diff ratio of 0 and the status 'ok', without
\* an alert or a diff image.
C8_IdenticalImagesAreOk ==
  [][\A s \in Slots :
       LET snapshot == Head(checks[s].queue)
           key == _getSnapshotKey(snapshot.url, snapshot.viewport.name,
                                  snapshot.selector)
       IN  (/\ Iterates(s)
            /\ key \in DOMAIN baselineSnapshots
            /\ baselineSnapshots[key].buffer = snapshot.buffer) =>
             /\ AppendsQuietly(s)
             /\ Appended(s).status = "ok"
             /\ Appended(s).diffPercentage[1] = 0
             /\ ~Appended(s).exceedsThreshold
             /\ Appended(s).diffImagePath = NoPath]_vars

\* a target was compared with a baseline equal to its capture and reported
\* 'ok' with no differing pixel
C8_Witness ==
  \E s \in Slots : \E i \in DOMAIN checks[s].results :
    LET r == checks[s].results[i]
        key == _getSnapshotKey(r.url, r.viewport, r.selector)
    IN  /\ r.status = "ok"
        /\ r.diffPercentage[1] = 0
        /\ key \in DOMAIN baselineSnapshots

\* the entries of a history were stored by checks that ran one after the
\* other: each was captured after the entry before it had been stored
Sequential(log) ==
  \A i \in 1..(Len(log) - 1) : log[i + 1].timestamp > log[i].stamp

\* C9: after n checks of a target that ran one after the other, its
\* history holds exactly the entries of the last min(n, maxSnapshots)
\* checks, each with its metadata.
C9_SequentialChecksKeepMostRecent ==
  \A d \in DOMAIN historyLog :
    LET log == historyLog[d]
        n == Len(log)
        kept == IF n > maxSnapshots THEN maxSnapshots ELSE n
    IN  Sequential(log) =>
          /\ historyFiles[d].snapshots = {log[i].stamp : i \in (n - kept + 1)..n}
          /\ Cardinality(historyFiles[d].snapshots) = kept
          /\ historyFiles[d].metadata =
               {[stamp |-> log[i].stamp, timestamp |-> log[i].timestamp] :
                  i \in (n - kept + 1)..n}

\* more sequential checks than maxSnapshots have stored an entry
C9_Witness ==
  \E d \in DOMAIN historyLog :
    /\ Sequential(historyLog[d])
    /\ Len(historyLog[d]) > maxSnapshots
    /\ Cardinality(historyFiles[d].snapshots) = maxSnapshots

\* C10: every baseline of the registry is registered under the key that
\* runCheck derives for a configured target, with that target's url,
\* viewport and selector: a baseline written for a target and loaded again
\* is found by the next check of that target.
C10_ReloadedBaselineKeepsItsKey ==
  \A key \in DOMAIN baselineSnapshots :
    \E t \in ConfiguredTargets :
      /\ key = _getSnapshotKey(t.url, t.viewport.name, t.selector)
      /\ baselineSnapshots[key].url = t.url
      /\ baselineSnapshots[key].viewport.name = t.viewport.name
      /\ baselineSnapshots[key].selector = t.selector

\* C11: the two targets have the same key, the same baseline file and the
\* same history directory when their (url, viewport name, selector) triples
\* are equal, and different baseline files and history directories when
\* the triples differ.
C11_KeysAndPathsAreInjective ==
  LET same == derived.targets[1] = derived.targets[2]
  IN  /\ derived.keys # <<>> => (same => derived.keys[1] = derived.keys[2])
      /\ derived.files # <<>> => (same <=> derived.files[1] = derived.files[2])
      /\ derived.dirs # <<>> => (same <=> derived.dirs[1] = derived.dirs[2])

\* the step is made by the runCheck invocation of slot s
RunCheckStep(s) ==
  /\ checks'[s] # checks[s]
  /\ checks'[s].pc # "idle"

\* C12: a step of a runCheck replaces no baseline that exists: every key of
\* the registry keeps its baseline, and every baseline file of the
\* baselines area keeps its image.
C12_RunCheckKeepsBaselines ==
  [][\A s \in Slots :
       RunCheckStep(s) =>
         /\ \A key \in DOMAIN baselineSnapshots :
              /\ key \in DOMAIN baselineSnapshots'
              /\ baselineSnapshots'[key] = baselineSnapshots[key]
         /\ \A file \in DOMAIN baselineFiles :
              /\ file \in DOMAIN baselineFiles'
              /\ baselineFiles'[file] = baselineFiles[file]]_vars

\* C13: a start() called while the monitor is running returns without
\* throwing, emits nothing, and leaves the schedule, the clock of the
\* captures, the registry, the storage and the invocations as they were.
C13_StartWhileRunningIsNoOp ==
  [][(lastCall'.op = "start" /\ isRunning) =>
       /\ lastCall'.emitted = <<>>
       /\ ~lastCall'.threw
       /\ UNCHANGED monitor]_vars

\* start() has been called on a running monitor, which is still running
C13_Witness ==
  /\ lastCall.op = "start"
  /\ lastCall.running
  /\ isRunning
  /\ cronJob = "scheduled"

\* C14: a start() of an idle monitor that does not throw leaves it running
\* with its schedule armed and emits 'started'; a stop() of a running
\* monitor leaves it idle with the schedule stopped and emits 'stopped'; a
\* stop() of an idle monitor emits nothing and changes nothing.
C14_StartAndStopTransitions ==
  [][/\ (lastCall'.op = "start" /\ ~isRunning /\ ~lastCall'.threw) =>
          /\ isRunning'
          /\ cronJob' = "scheduled"
          /\ lastCall'.emitted # <<>>
          /\ lastCall'.emitted[Len(lastCall'.emitted)] = "started"
     /\ (lastCall'.op = "stop" /\ isRunning) =>
          /\ ~isRunning'
          /\ cronJob' = "stopped"
          /\ lastCall'.emitted = <<"stopped">>
     /\ (lastCall'.op = "stop" /\ ~isRunning) =>
          /\ lastCall'.emitted = <<>>
          /\ UNCHANGED monitor]_vars

\* stop() has been called on a monitor that had run and was idle again
C14_Witness ==
  /\ lastCall.op = "stop"
  /\ ~lastCall.running
  /\ lastCall.emitted = <<>>
  /\ cronJob = "stopped"
  /\ ~isRunning

\* C15: with a schedule expression that cron.schedule does not accept the
\* monitor is never running, no schedule is ever armed, no invocation of
\* runCheck is ever made by a tick, and every start() throws without
\* emitting 'started'.
C15_InvalidScheduleNeverArms ==
  ~env.scheduleValid =>
    /\ ~isRunning
    /\ cronJob = Null
    /\ \A s \in Slots : checks[s].by # "cron"
    /\ lastCall.op = "start" =>
         /\ lastCall.threw
         /\ \A i \in DOMAIN lastCall.emitted : lastCall.emitted[i] # "started"

\* start() had its baselines and threw on the invalid expression
C15_Witness ==
  /\ ~env.scheduleValid
  /\ lastCall.op = "start"
  /\ lastCall.threw
  /\ DOMAIN baselineSnapshots # {}

\* C16: when the runCheck of a tick throws, the step appends an 'error'
\* event and leaves the schedule armed and the monitor running as they
\* were; and once the callback of such a tick has returned on a running
\* monitor, the next tick can call runCheck.
C16_TickErrorKeepsSchedule ==
  /\ [][\A s \in Slots :
          (/\ checks'[s].pc = "threw"
           /\ checks[s].pc # "threw"
           /\ checks'[s].by = "cron") =>
            /\ checks'[s].events = Append(checks[s].events, "error")
            /\ cronJob' = cronJob
            /\ isRunning' = isRunning]_vars
  /\ []((/\ lastCall.op = "tick"
         /\ lastCall.threw
         /\ isRunning
         /\ now < env.horizon) => ENABLED CronTick)

\* the callback of a tick whose runCheck threw has returned, with its
\* 'error' event, and the schedule is still armed
C16_Witness ==
  /\ lastCall.op = "tick"
  /\ lastCall.threw
  /\ lastCall.emitted = <<"error">>
  /\ isRunning
  /\ cronJob = "scheduled"
  /\ now < env.horizon

TargetOf(r) == <<r.url, r.viewport, r.selector>>

\* C18: in every invocation the alerts handed to the dispatcher are, in
\* order, the targets of the results with status 'alert', one alert each,
\* with one 'visual-regression-detected' event each.
C18_OneDispatchPerAlert ==
  \A s \in Slots :
    LET IsAlert(r) == r.status = "alert"
        IsDetection(e) == e = "visual-regression-detected"
        alerted == SelectSeq(checks[s].results, IsAlert)
    IN  /\ Len(checks[s].alerts) = Len(alerted)
        /\ \A i \in DOMAIN alerted :
             TargetOf(checks[s].alerts[i]) = TargetOf(alerted[i])
        /\ Len(SelectSeq(checks[s].events, IsDetection)) = Len(alerted)

\* an invocation reported one 'alert' and one 'ok' and dispatched one alert
C18_Witness ==
  \E s \in Slots :
    /\ Len(checks[s].results) = 2
    /\ checks[s].results[1].status = "alert"
    /\ checks[s].results[2].status = "ok"
    /\ Len(checks[s].alerts) = 1
    /\ checks[s].alerts[1].url = checks[s].results[1].url

\* C19: the iteration that compares a target with its baseline and reports
\* its result, 'ok' or 'alert', appends one entry to the history of the
\* key: the entry is in the directory afterwards with the capture's
\* timestamp, nothing else was added, and the directory holds at most
\* maxSnapshots entries.
C19_HistoryEntryPerComparison ==
  [][\A s \in Slots :
       LET snapshot == Head(checks[s].queue)
           key == _getSnapshotKey(snapshot.url, snapshot.viewport.name,
                                  snapshot.selector)
           dir == _sanitizeFilename(key)
       IN  (/\ Iterates(s)
            /\ key \in DOMAIN baselineSnapshots
            /\ Len(checks'[s].results) = Len(checks[s].results) + 1) =>
             /\ Appended(s).status \in {"ok", "alert"}
             /\ dir \in DOMAIN historyFiles'
             /\ now' \in historyFiles'[dir].snapshots
             /\ [stamp |-> now', timestamp |-> snapshot.timestamp]
                  \in historyFiles'[dir].metadata
             /\ historyFiles'[dir].snapshots \subseteq
                  (IF dir \in DOMAIN historyFiles
                   THEN historyFiles[dir].snapshots ELSE {}) \cup {now'}
             /\ Cardinality(historyFiles'[dir].snapshots) <= maxSnapshots
             /\ historyLog'[dir] =
                  Append(IF dir \in DOMAIN historyLog THEN historyLog[dir] ELSE <<>>,
                         [stamp |-> now', timestamp |-> snapshot.timestamp])]_vars

\* a full history has taken the entry of a comparison that raised an alert
C19_Witness ==
  \E s \in Slots : \E d \in DOMAIN historyFiles :
    /\ checks[s].results # <<>>
    /\ checks[s].results[Len(checks[s].results)].status = "alert"
    /\ Len(historyLog[d]) > maxSnapshots
    /\ historyLog[d][Len(historyLog[d])].stamp \in historyFiles[d].snapshots
    /\ Cardinality(historyFiles[d].snapshots) = maxSnapshots

\* C20: an invocation that returns has, in its results, an entry for every
\* target whose capture failed.
C20_FailedTargetIsReported ==
  \A s \in Slots :
    checks[s].pc = "returned" =>
      \A t \in checks[s].failed :
        \E i \in DOMAIN checks[s].results :
          TargetOf(checks[s].results[i]) = <<t.url, t.viewport.name, t.selector>>

\* the captured targets of the invocation of slot s: the configured ones
\* whose capture did not fail
CapturedTargets(s) ==
  {<<t.url, t.viewport.name, t.selector>> : t \in ConfiguredTargets \ checks[s].failed}

\* the targets the invocation of slot s has a result for
ReportedTargets(s) ==
  {TargetOf(checks[s].results[i]) : i \in DOMAIN checks[s].results}

\* C21: an invocation that met a dimension mismatch between the baseline
\* and the capture of a target still returns: every captured target has a
\* result in the list and 'check-completed' is emitted.
C21_DimensionMismatchIsContained ==
  \A s \in Slots :
    checks[s].error = "dimensions" =>
      /\ checks[s].pc # "threw"
      /\ (checks[s].pc = "returned" =>
            /\ CapturedTargets(s) \subseteq ReportedTargets(s)
            /\ checks[s].events # <<>>
            /\ checks[s].events[Len(checks[s].events)] = "check-completed")

\* the calls that save baselines: createBaselines (also from start) and
\* acceptCurrentAsBaseline
SavingCalls == {"createBaselines", "acceptCurrentAsBaseline", "start"}

\* C22: a createBaselines or acceptCurrentAsBaseline call (and a start that
\* creates the baselines) in which the write of a baseline file failed
\* rejects, and emits neither 'baselines-created' nor 'baseline-updated'.
C22_FailedWriteSurfaces ==
  (lastCall.op \in SavingCalls /\ lastCall.detail.failedWrite # 0) =>
    /\ lastCall.threw
    /\ lastCall.emitted = <<>>

\* the second write of a createBaselines failed, after the first succeeded
C22_Witness ==
  /\ lastCall.op = "createBaselines"
  /\ lastCall.detail.failedWrite = 2
  /\ lastCall.threw

\* the step is a call that saves baselines, or a runCheck iteration
SavingStep ==
  \/ lastCall'.op \in {"createBaselines", "acceptCurrentAsBaseline"}
  \/ \E s \in Slots : Iterates(s)

\* after the step, the registry and the baselines directory both hold the
\* same image for key
BothNew(key) ==
  /\ key \in DOMAIN baselineSnapshots'
  /\ BaselineFile(key) \in DOMAIN baselineFiles'
  /\ baselineSnapshots'[key].buffer = baselineFiles'[BaselineFile(key)]

\* the step left the registry entry and the baseline file of key alone
BothPrevious(key) ==
  /\ (key \in DOMAIN baselineSnapshots') = (key \in DOMAIN baselineSnapshots)
  /\ (key \in DOMAIN baselineSnapshots =>
        baselineSnapshots'[key] = baselineSnapshots[key])
  /\ (BaselineFile(key) \in DOMAIN baselineFiles')
       = (BaselineFile(key) \in DOMAIN baselineFiles)
  /\ (BaselineFile(key) \in DOMAIN baselineFiles =>
        baselineFiles'[BaselineFile(key)] = baselineFiles[BaselineFile(key)])

\* C23: after a createBaselines, an acceptCurrentAsBaseline or a runCheck
\* iteration, for every key the registry entry and the persisted baseline
\* are either both the new snapshot or both as they were before.
C23_BaselineWriteIsAtomic ==
  [][SavingStep => \A key \in ConfiguredKeys : BothNew(key) \/ BothPrevious(key)]_vars

\* the call is an acceptCurrentAsBaseline that did not throw
Accepted(call) == call.op = "acceptCurrentAsBaseline" /\ ~call.threw

\* C24: when an acceptCurrentAsBaseline that succeeded is followed at once
\* by another with the same arguments and the same capture, the second
\* leaves the registry and the baselines directory as the first left them.
C24_AcceptTwiceIsAcceptOnce ==
  [][(Accepted(lastCall') /\ lastCall'.detail.repeated)
     => /\ baselineSnapshots' = baselineSnapshots
        /\ baselineFiles' = baselineFiles]_vars

\* the same capture of a target was accepted twice in succession, and the
\* registry and the directory hold what was captured
C24_Witness ==
  /\ Accepted(lastCall)
  /\ lastCall.detail.repeated
  /\ lastCall.detail.captured # <<>>
  /\ \A i \in DOMAIN lastCall.detail.captured :
        LET entry == lastCall.detail.captured[i]
            key == _getSnapshotKey(entry.url, entry.viewport.name, entry.selector)
        IN  /\ key \in DOMAIN baselineSnapshots
            /\ baselineSnapshots[key] = entry
            /\ baselineFiles[BaselineFile(key)] = entry.buffer

\* the step is a call of acceptCurrentAsBaseline
Accepting == lastCall'.op = "acceptCurrentAsBaseline"

\* C25: an acceptCurrentAsBaseline makes every capture it was returned the
\* baseline of its key, in the registry and in the baselines directory, and
\* does nothing of a comparison: the history, the diff images and the
\* results, events and alerts of the invocations are as they were.
C25_AcceptBypassesComparison ==
  [][Accepting =>
       /\ UNCHANGED <<historyFiles, historyLog, diffFiles, checks>>
       /\ lastCall'.emitted \in {<<>>, <<"baseline-updated">>}
       /\ (~lastCall'.threw =>
             \A i \in DOMAIN lastCall'.detail.captured :
               LET entry == lastCall'.detail.captured[i]
                   key == _getSnapshotKey(entry.url, entry.viewport.name,
                                          entry.selector)
               IN  /\ key \in DOMAIN baselineSnapshots'
                   /\ baselineSnapshots'[key] = entry
                   /\ baselineFiles'[BaselineFile(key)] = entry.buffer)]_vars

\* a capture that exceeds the threshold against the reference was accepted
\* for a key that has been compared before, and no diff image exists
C25_Witness ==
  /\ Accepted(lastCall)
  /\ lastCall.detail.captured # <<>>
  /\ lastCall.detail.captured[1].buffer = Changed4
  /\ \E key \in DOMAIN baselineSnapshots :
        /\ baselineSnapshots[key] = lastCall.detail.captured[1]
        /\ HistoryDir(key) \in DOMAIN historyLog
  /\ diffFiles = {}

\* the target is one the filter <<url, viewport name, selector>> selects:
\* a field left out selects every configured value
Matches(t, args) ==
  /\ (args[1] = Undefined \/ t.url = args[1])
  /\ (args[2] = Undefined \/ t.viewport.name = args[2])
  /\ (args[3] = Undefined \/ t.selector = args[3])

\* C26: an acceptCurrentAsBaseline with any of url, viewport name and
\* selector left out succeeds, every configured target the filter selects
\* has its capture as its baseline afterwards, and the baselines of the
\* other targets are as they were.
C26_AcceptTakesPartialFilter ==
  [][Accepting =>
       /\ ~lastCall'.threw
       /\ \A t \in ConfiguredTargets :
             LET key == _getSnapshotKey(t.url, t.viewport.name, t.selector)
                 captured == lastCall'.detail.captured
             IN  IF Matches(t, lastCall'.detail.args)
                 THEN \E i \in DOMAIN captured :
                        /\ captured[i].url = t.url
                        /\ captured[i].viewport = t.viewport
                        /\ captured[i].selector = t.selector
                        /\ key \in DOMAIN baselineSnapshots'
                        /\ baselineSnapshots'[key] = captured[i]
                 ELSE BothPrevious(key)]_vars

\* the step is a start() of a monitor that was not running
Starting == lastCall'.op = "start" /\ ~lastCall'.running

ConfiguredViewportNames == {viewports[i].name : i \in DOMAIN viewports}

\* the viewport of line 359, for a name that is not configured
FallbackViewport(name) == [name |-> name, width |-> 1920, height |-> 1080]

\* the targets a baseline file may have been written for
StoredTargets ==
  KeyTargets \cup {[url |-> t.url, viewport |-> t.viewport.name,
                    selector |-> t.selector] : t \in ConfiguredTargets}

Begins(s) == checks[s].pc = "idle" /\ checks'[s].pc # "idle"

\* C29: a runCheck called while the registry is empty throws at once, with
\* the error of line 143: it captures nothing (no capture is awaited, the
\* clock stands), creates no baseline, writes no history and no diff image,
\* has no result and emits no 'check-completed'.
C29_EmptyRegistryFailsFast ==
  [][\A s \in Slots :
       (Begins(s) /\ DOMAIN baselineSnapshots = {}) =>
         /\ checks'[s].pc = "threw"
         /\ checks'[s].error = "no-baselines"
         /\ checks'[s].results = <<>>
         /\ checks'[s].alerts = <<>>
         /\ \A i \in DOMAIN checks'[s].events :
               checks'[s].events[i] # "check-completed"
         /\ UNCHANGED <<now, baselineSnapshots, baselineFiles, historyFiles,
                        historyLog, diffFiles>>]_vars

\* a runCheck of the owner has thrown for want of baselines, over an empty
\* baselines directory
C29_Witness ==
  \E s \in Slots :
    /\ checks[s].pc = "threw"
    /\ checks[s].error = "no-baselines"
    /\ checks[s].by = "manual"
    /\ DOMAIN baselineSnapshots = {}
    /\ DOMAIN baselineFiles = {}

\* the results of the invocation of slot s that have status 'alert'
AlertResults(s) ==
  {i \in DOMAIN checks[s].results : checks[s].results[i].status = "alert"}

\* C30: an invocation that has returned has emitted 'check-completed' once,
\* as its last event, after one 'visual-regression-detected' for each
\* result of status 'alert' and nothing else; its result list has one
\* entry for each captured snapshot, and no other.
C30_OneCheckCompletedAfterAlerts ==
  \A s \in Slots :
    checks[s].pc = "returned" =>
      LET events == checks[s].events
          n == Len(events)
      IN  /\ n >= 1
          /\ events[n] = "check-completed"
          /\ \A i \in 1..(n - 1) : events[i] = "visual-regression-detected"
          /\ n - 1 = Cardinality(AlertResults(s))
          /\ Len(checks[s].results)
               = Cardinality(ConfiguredTargets) - Cardinality(checks[s].failed)
          /\ ReportedTargets(s) = CapturedTargets(s)

\* an invocation has returned two results, one of them an alert
C30_Witness ==
  \E s \in Slots :
    /\ checks[s].pc = "returned"
    /\ Len(checks[s].results) = 2
    /\ AlertResults(s) # {}
    /\ checks[s].events = <<"visual-regression-detected", "check-completed">>

\* the cron jobs that are armed: the one this.cronJob refers to, if it is,
\* and those it no longer refers to
ArmedJobs == orphans + (IF cronJob = "scheduled" THEN 1 ELSE 0)

\* the events of the call contain the event
Emitted(call, event) == \E i \in DOMAIN call.emitted : call.emitted[i] = event

\* C31: under any calls of start() and stop(), overlapping ones included,
\* at most one cron job is armed, one is armed exactly when isRunning is
\* true, and no start() emits 'started' on a monitor that is running.
C31_AtMostOneArmedSchedule ==
  /\ ArmedJobs <= 1
  /\ (isRunning <=> ArmedJobs = 1)
  /\ ~(lastCall.op = "start" /\ lastCall.running /\ Emitted(lastCall, "started"))

\* the step dispatched an alert for the invocation of slot s
Dispatches(s) == Len(checks'[s].alerts) = Len(checks[s].alerts) + 1

\* C32: the iteration that dispatches an alert ends the same way whatever
\* the deliveries did, all of them failing included: the result it appends
\* has status 'alert', the invocation does not throw, it goes on with the
\* remaining snapshots when there are some and otherwise returns with
\* 'check-completed' as its last event.
C32_DeliveryFailuresChangeNothing ==
  [][\A s \in Slots :
       (Iterates(s) /\ Dispatches(s)) =>
         /\ Len(checks'[s].results) = Len(checks[s].results) + 1
         /\ Appended(s).status = "alert"
         /\ checks'[s].pc # "threw"
         /\ checks'[s].error = "none"
         /\ IF Len(checks[s].queue) > 1
            THEN /\ checks'[s].pc = "processing"
                 /\ checks'[s].queue = Tail(checks[s].queue)
            ELSE /\ checks'[s].pc = "returned"
                 /\ checks'[s].events[Len(checks'[s].events)] = "check-completed"]_vars

\* every delivery of an alert failed; the target is reported as 'alert', the
\* next target was compared and the invocation has returned
C32_Witness ==
  \E s \in Slots :
    /\ checks[s].pc = "returned"
    /\ Len(checks[s].results) = 2
    /\ checks[s].results[1].status = "alert"
    /\ checks[s].results[2].status = "ok"
    /\ Len(checks[s].alerts) = 1
    /\ \A j \in DOMAIN checks[s].alerts[1].attempts :
          ~checks[s].alerts[1].attempts[j].delivered
    /\ checks[s].events = <<"visual-regression-detected", "check-completed">>

C34_AcceptWithoutSnapshotFails ==
  [][(Accepting /\ lastCall'.detail.captured = <<>>) =>
       /\ lastCall'.threw
       /\ lastCall'.emitted = <<>>
       /\ UNCHANGED <<baselineSnapshots, baselineFiles>>]_vars

\* the accept of a configured page whose element was not found has thrown,
\* over a registry that holds baselines
C34_Witness ==
  /\ lastCall.op = "acceptCurrentAsBaseline"
  /\ lastCall.threw
  /\ lastCall.detail.args[1] = UrlA
  /\ lastCall.detail.captured = <<>>
  /\ DOMAIN baselineSnapshots # {}
  /\ DOMAIN baselineFiles # {}

\* the step stores a snapshot in the history of target i
StoresFor(i) ==
  /\ Len(derived'.stored) = Len(derived.stored) + 1
  /\ derived'.stored[Len(derived'.stored)].target = i

\* the history directory of target i holds the snapshot stored at stamp,
\* with its metadata
Holds(history, i, stamp) ==
  /\ derived.dirs[i] \in DOMAIN history
  /\ stamp \in history[derived.dirs[i]].snapshots
  /\ [stamp |-> stamp, timestamp |-> stamp] \in history[derived.dirs[i]].metadata

\* C35: storing a snapshot in the history of one key, with the eviction
\* that follows, removes and changes no entry that was stored for a
\* different key.
C35_HistoryIsPerKey ==
  [][\A i \in 1..2 :
       StoresFor(i) =>
         \A n \in DOMAIN derived.stored :
           LET other == derived.stored[n]
           IN  (/\ derived.keys[other.target] # derived.keys[i]
                /\ Holds(derived.history, other.target, other.stamp))
               => Holds(derived'.history, other.target, other.stamp)]_vars

\* the capture batches in flight: those of the runCheck calls awaiting one
\* (createBaselines and acceptCurrentAsBaseline await theirs within a step)
Capturing == {s \in Slots : checks[s].pc = "capturing"}

\* C36: every capture batch closes the browser it launched before it
\* returns or throws, so the only browsers open are those of the batches
\* still in flight: no runCheck, createBaselines or acceptCurrentAsBaseline
\* that has ended has left one open.
C36_CaptureReleasesBrowser == browsers = Cardinality(Capturing)

\* a runCheck whose capture launched its browser and failed to navigate has
\* ended, and no browser is open
C36_Witness ==
  /\ browsers = 0
  /\ \E s \in Slots : checks[s].pc = "threw" /\ checks[s].error = "navigation"

\* the call of _storeSnapshotHistory of invocation s returns in this step
Completes(s) ==
  /\ derived.stores[s].pc # "idle"
  /\ derived'.stores[s].pc = "idle"

\* every snapshot image of the directory has its metadata record, and
\* every metadata record its snapshot image
Paired(dir) ==
  /\ {m.stamp : m \in dir.metadata} = dir.snapshots
  /\ Cardinality(dir.metadata) = Cardinality(dir.snapshots)

\* no call of _storeSnapshotHistory is in progress on the directory
NoStoreInProgress(stores) == \A s \in DOMAIN stores : stores[s].pc = "idle"

\* C37: whenever a call of _storeSnapshotHistory has completed and none is
\* in progress, the history directory of the key holds its images and
\* metadata in pairs: every retained snapshot has its metadata record, no
\* metadata record is left of an evicted snapshot, and the two counts are
\* equal.
C37_ImageAndMetadataStayPaired ==
  [][\A s \in Slots :
       Completes(s) /\ NoStoreInProgress(derived'.stores)
         => Paired(derived'.dir)]_vars

=============================================================================
